---- MODULE Spec2Model ----
(***************************************************************************)
(* Ward Protocol SDK: the pool capital ledger (ward/pool.py), the claim    *)
(* validator (ward/validator.py), the persistence store (ward/database.py,  *)
(* ward/policy.py) and the escrow controller (ward/escrow.py).              *)
(*                                                                           *)
(* Every coroutine is modelled step by step: one action per stretch of code *)
(* between two awaits on the database or the ledger, so that two calls on   *)
(* the same pool or claim interleave exactly where the event loop allows.   *)
(* Amounts are drops, scaled down; time is in hours.                        *)
(***************************************************************************)
EXTENDS Integers, Sequences, FiniteSets, TLC

VARIABLES
    pool,        \* the insurance_pools row of this pool
    tasks,       \* the in-flight pool coroutines: op, position, locals
    nops,        \* number of pool calls started so far
    overlapped,  \* history: two pool calls were ever in flight together
    now,         \* datetime.utcnow(), in hours
    policies,    \* the policies table, in insertion order (policy_id = index)
    claims,      \* the claims table, in insertion order (claim_id = index)
    result,      \* the ValidationResult of the last validate_claim call
    nvalidate,   \* number of validate_claim calls made so far
    calc,        \* the last call of a calculator: its arguments and what came back
    mon,         \* the XLS66Monitor: callbacks, caches, message in hand, deliveries
    objects,     \* the ledger's brokers and vaults: version and time of last change
    conn,        \* the XRPLConnectionPool, its connect calls and heartbeat tasks
    escrows,     \* the ledger's escrow objects of the wallet, by Sequence
    etasks,      \* the in-flight escrow coroutines: op, position, locals
    ncalls       \* number of escrow calls started so far

poolVars == <<pool, tasks, nops, overlapped>>
storeVars == <<policies, claims>>
validateVars == <<result, nvalidate, calc, mon, objects, conn>>
escrowVars == <<escrows, etasks, ncalls>>
notPool == <<now, storeVars, validateVars, escrowVars>>

(***************************************************************************)
(* Bounds of the model.                                                     *)
(***************************************************************************)
MaxOps == 3
Tasks == {1, 2}
Amounts == {10, 20}
InitialCapitals == {50}
PolicyIds == {1}          \* the policy_ids the store can hand out
UnknownPolicyIds == {2}   \* policy_ids that are never stored
ClaimIds == {1, 2}        \* the claim_ids the store can hand out
MaxValidate == 2
MaxValidateTicks == 3
TickHours == 24
ETasks == {1, 2}          \* escrow coroutines that can be in flight together
EscrowSeqs == {1, 2}      \* the Sequence numbers the ledger can hand out
PayoutAmounts == {20}
Reasons == {"fraud", "disputed"}   \* the reasons a caller gives for a cancellation
MaxCalls == 3
MaxEscrowTicks == 5
SettleTasks == {1}        \* the one caller of the settlement scenario
SettleAmounts == {20}
MaxSettleTicks == 2
MaxMessages == 3           \* messages the monitor takes from the stream
MaxCallbacks == 2          \* on_default registrations
MaxVersion == 1            \* changes of one ledger object
MaxCacheTicks == 2         \* ticks of the clock while the monitor runs
MaxLoops == 2              \* heartbeat tasks ever created
MaxFailures == 7           \* connection tests that fail
MaxConnects == 2           \* connect() calls of the application

(***************************************************************************)
(* Pool Capital Ledger (ward/pool.py).                                      *)
(***************************************************************************)

\* InsurancePool.MINIMUM_COVERAGE_RATIO = 2.0
MINIMUM_COVERAGE_RATIO == 2

\* A stored or computed ratio is the exact quotient num/den (den > 0).
Ratio(num, den) == [num |-> num, den |-> den]
ZeroRatio == Ratio(0, 1)
RatioEq(r, s) == r.num * s.den = s.num * r.den
\* A comparison that finds no ratio too low
RatioNeverBelow(r, k) == FALSE

\* r < k for an integer k
RatioBelow(r, k) == r.num < k * r.den

\* _store_pool: the row create_pool inserts
StorePool(capital) ==
    [ total_capital |-> capital,
      available_capital |-> capital,
      total_exposure |-> 0,
      coverage_ratio |-> ZeroRatio,
      active_policies_count |-> 0,
      total_claims_paid |-> 0 ]

\* fetchrow finds no row of the pool_id: the fields read None
NoRow ==
    [ total_capital |-> 0, available_capital |-> 0, total_exposure |-> 0,
      coverage_ratio |-> ZeroRatio, active_policies_count |-> 0,
      total_claims_paid |-> 0, none |-> TRUE ]

\* A get_metrics that builds its metrics from whatever fetchrow returned
RowAssumed(row) == FALSE

\* get_metrics, lines 350-351: `if not row: raise ValueError("Pool not found")`
PoolNotFound(row) == "none" \in DOMAIN row

\* get_metrics: the PoolMetrics built from the row. The coverage_ratio of the
\* metrics is recomputed from the row; the stored column is not read.
\* inf is TRUE when total_exposure = 0 (float('inf')).
GetMetrics(row) ==
    [ total_capital |-> row.total_capital,
      available_capital |-> row.available_capital,
      total_exposure |-> row.total_exposure,
      inf |-> ~(row.total_exposure > 0),
      coverage_ratio |-> IF row.total_exposure > 0
                         THEN Ratio(row.available_capital, row.total_exposure)
                         ELSE ZeroRatio,
      active_policies_count |-> row.active_policies_count,
      total_claims_paid |-> row.total_claims_paid ]

\* _update_pool_state(total_capital, available_capital): both given
UpdatePoolState(row, total_capital, available_capital) ==
    [row EXCEPT !.total_capital = total_capital,
                !.available_capital = available_capital]

\* _update_pool_state(available_capital=...): only available_capital given
UpdatePoolAvailable(row, available_capital) ==
    [row EXCEPT !.available_capital = available_capital]

\* _update_pool_exposure: the only statement that writes coverage_ratio; it
\* divides the row's current available_capital by the new exposure.
UpdatePoolExposure(row, total_exposure, active_policies_count) ==
    [row EXCEPT !.total_exposure = total_exposure,
                !.active_policies_count = active_policies_count,
                !.coverage_ratio = IF total_exposure > 0
                                   THEN Ratio(row.available_capital, total_exposure)
                                   ELSE ZeroRatio]

\* _update_pool_claims
UpdatePoolClaims(row, total_claims_paid) ==
    [row EXCEPT !.total_claims_paid = total_claims_paid]

Max(a, b) == IF a >= b THEN a ELSE b
Min(a, b) == IF a <= b THEN a ELSE b

NoMetrics == [none |-> TRUE]
IdleTask == [op |-> "none", pc |-> "idle", amount |-> 0, m |-> NoMetrics, res |-> "none"]

PoolOps == {"deposit", "withdraw", "add_exposure", "remove_exposure", "pay_claim"}

\* A caller starts a pool coroutine; it runs up to its first await.
CallPool(t, op, amount) ==
    /\ tasks[t].pc = "idle"
    /\ nops < MaxOps
    /\ tasks' = [tasks EXCEPT ![t] = [op |-> op, pc |-> "get_metrics", amount |-> amount,
                                      m |-> NoMetrics, res |-> "running"]]
    /\ nops' = nops + 1
    /\ overlapped' = (overlapped \/ \E u \in Tasks \ {t} : tasks[u].pc # "idle")
    /\ UNCHANGED <<pool, notPool>>

Finish(t, res) == [tasks EXCEPT ![t].pc = "idle", ![t].res = res, ![t].m = NoMetrics]

\* get_metrics called by itself: the metrics come back, or ValueError
MetricsRead(t) ==
    /\ tasks[t].op = "get_metrics" /\ tasks[t].pc = "get_metrics"
    /\ tasks' = IF PoolNotFound(pool) THEN Finish(t, "PoolNotFound")
                ELSE Finish(t, "ok")
    /\ UNCHANGED <<pool, nops, overlapped, notPool>>

\* create_pool, lines 121-129: _store_pool inserts the row and pool_id is set
CreatePool(capital) ==
    /\ PoolNotFound(pool)
    /\ pool' = StorePool(capital)
    /\ UNCHANGED <<tasks, nops, overlapped, notPool>>

\* deposit_capital, lines 156-158: get_metrics returns
DepositRead(t) ==
    /\ tasks[t].op = "deposit" /\ tasks[t].pc = "get_metrics"
    /\ tasks' = IF PoolNotFound(pool) THEN Finish(t, "PoolNotFound")
                ELSE [tasks EXCEPT ![t].m = GetMetrics(pool), ![t].pc = "update"]
    /\ UNCHANGED <<pool, nops, overlapped, notPool>>

\* deposit_capital, lines 160-171: _update_pool_state with the sums computed
\* from the metrics read earlier
DepositWrite(t) ==
    /\ tasks[t].op = "deposit" /\ tasks[t].pc = "update"
    /\ pool' = UpdatePoolState(pool, tasks[t].m.total_capital + tasks[t].amount,
                               tasks[t].m.available_capital + tasks[t].amount)
    /\ tasks' = Finish(t, "ok")
    /\ UNCHANGED <<nops, overlapped, notPool>>

\* withdraw_capital, lines 191-200: get_metrics returns, the ratio check runs
WithdrawRead(t) ==
    /\ tasks[t].op = "withdraw" /\ tasks[t].pc = "get_metrics"
    /\ LET m == GetMetrics(pool)
           new_available == m.available_capital - tasks[t].amount
       IN IF PoolNotFound(pool)
          THEN tasks' = Finish(t, "PoolNotFound")
          ELSE IF m.total_exposure > 0
             /\ RatioBelow(Ratio(new_available, m.total_exposure), MINIMUM_COVERAGE_RATIO)
          THEN tasks' = Finish(t, "ValueError")
          ELSE tasks' = [tasks EXCEPT ![t].m = m, ![t].pc = "update"]
    /\ UNCHANGED <<pool, nops, overlapped, notPool>>

\* withdraw_capital, lines 207-220
WithdrawWrite(t) ==
    /\ tasks[t].op = "withdraw" /\ tasks[t].pc = "update"
    /\ pool' = UpdatePoolState(pool, tasks[t].m.total_capital - tasks[t].amount,
                               tasks[t].m.available_capital - tasks[t].amount)
    /\ tasks' = Finish(t, "ok")
    /\ UNCHANGED <<nops, overlapped, notPool>>

\* add_policy_exposure, lines 234-244
AddExposureRead(t) ==
    /\ tasks[t].op = "add_exposure" /\ tasks[t].pc = "get_metrics"
    /\ LET m == GetMetrics(pool)
           new_exposure == m.total_exposure + tasks[t].amount
       IN IF PoolNotFound(pool)
          THEN tasks' = Finish(t, "PoolNotFound")
          ELSE IF RatioBelow(Ratio(m.available_capital, new_exposure), MINIMUM_COVERAGE_RATIO)
          THEN tasks' = Finish(t, "ValueError")
          ELSE tasks' = [tasks EXCEPT ![t].m = m, ![t].pc = "update"]
    /\ UNCHANGED <<pool, nops, overlapped, notPool>>

\* add_policy_exposure, lines 247-255
AddExposureWrite(t) ==
    /\ tasks[t].op = "add_exposure" /\ tasks[t].pc = "update"
    /\ pool' = UpdatePoolExposure(pool, tasks[t].m.total_exposure + tasks[t].amount,
                                  tasks[t].m.active_policies_count + 1)
    /\ tasks' = Finish(t, "ok")
    /\ UNCHANGED <<nops, overlapped, notPool>>

\* remove_policy_exposure, lines 269-270
RemoveExposureRead(t) ==
    /\ tasks[t].op = "remove_exposure" /\ tasks[t].pc = "get_metrics"
    /\ tasks' = IF PoolNotFound(pool) THEN Finish(t, "PoolNotFound")
                ELSE [tasks EXCEPT ![t].m = GetMetrics(pool), ![t].pc = "update"]
    /\ UNCHANGED <<pool, nops, overlapped, notPool>>

\* remove_policy_exposure, lines 272-277
RemoveExposureWrite(t) ==
    /\ tasks[t].op = "remove_exposure" /\ tasks[t].pc = "update"
    /\ pool' = UpdatePoolExposure(pool, Max(0, tasks[t].m.total_exposure - tasks[t].amount),
                                  Max(0, tasks[t].m.active_policies_count - 1))
    /\ tasks' = Finish(t, "ok")
    /\ UNCHANGED <<nops, overlapped, notPool>>

\* process_claim_payout, lines 298-305: get_metrics returns, capital check
PayClaimRead(t) ==
    /\ tasks[t].op = "pay_claim" /\ tasks[t].pc = "get_metrics"
    /\ LET m == GetMetrics(pool)
       IN IF PoolNotFound(pool)
          THEN tasks' = Finish(t, "PoolNotFound")
          ELSE IF tasks[t].amount > m.available_capital
          THEN tasks' = Finish(t, "ValueError")
          ELSE tasks' = [tasks EXCEPT ![t].m = m, ![t].pc = "submit"]
    /\ UNCHANGED <<pool, nops, overlapped, notPool>>

\* process_claim_payout, lines 308-319: the Payment is submitted; the ledger
\* accepts or refuses it
PayClaimSubmit(t) ==
    /\ tasks[t].op = "pay_claim" /\ tasks[t].pc = "submit"
    /\ \E successful \in BOOLEAN :
          tasks' = IF successful THEN [tasks EXCEPT ![t].pc = "update"]
                   ELSE Finish(t, "PaymentFailed")
    /\ UNCHANGED <<pool, nops, overlapped, notPool>>

\* process_claim_payout, lines 322-327
PayClaimUpdateState(t) ==
    /\ tasks[t].op = "pay_claim" /\ tasks[t].pc = "update"
    /\ pool' = UpdatePoolAvailable(pool, tasks[t].m.available_capital - tasks[t].amount)
    /\ tasks' = [tasks EXCEPT ![t].pc = "update_claims"]
    /\ UNCHANGED <<nops, overlapped, notPool>>

\* process_claim_payout, lines 329-335
PayClaimUpdateClaims(t) ==
    /\ tasks[t].op = "pay_claim" /\ tasks[t].pc = "update_claims"
    /\ pool' = UpdatePoolClaims(pool, tasks[t].m.total_claims_paid + tasks[t].amount)
    /\ tasks' = Finish(t, "ok")
    /\ UNCHANGED <<nops, overlapped, notPool>>


(***************************************************************************)
(* Wall clock. One tick is TickHours; a specification bounds the ticks.    *)
(***************************************************************************)
Tick(maxTicks) ==
    /\ now < maxTicks * TickHours
    /\ now' = now + TickHours
    /\ UNCHANGED <<poolVars, storeVars, validateVars, escrowVars>>

(***************************************************************************)
(* Loss waterfall (ward/utils/calculations.py). Rates are carried in basis *)
(* points, as the ledger stores them (LoanBroker.from_ledger_entry divides *)
(* by 10000); int() truncates towards zero.                                *)
(***************************************************************************)
BasisPoints == 10000

IntTrunc(n, d) == IF n >= 0 THEN n \div d ELSE -((-n) \div d)

Min3(a, b, c) == Min(a, Min(b, c))

\* The products |n| * (|bp| / 10000), over the amounts up to 1200 and the
\* rates of RatesBp, that are whole numbers exactly and that the code's
\* double-precision multiplication returns just below that whole number
\* (100 * 0.29 = 28.999999999999996).
InexactProducts == { <<100, 2900>>, <<200, 2900>>, <<400, 2900>>, <<800, 2900>> }

Abs(n) == IF n >= 0 THEN n ELSE 0 - n

\* int(n * rate) for the float rate = bp / 10000: the double product,
\* truncated towards zero
IntOfProduct(n, bp) ==
    LET q == IntTrunc(n * bp, BasisPoints)
    IN IF <<Abs(n), Abs(bp)>> \in InexactProducts
       THEN (IF n * bp >= 0 THEN q - 1 ELSE q + 1)
       ELSE q

calculate_vault_loss(principal_outstanding, interest_outstanding, debt_total, cover_available, cover_rate_minimum, cover_rate_liquidation) ==
    LET default_amount == principal_outstanding + interest_outstanding
        minimum_cover == IntOfProduct(debt_total, cover_rate_minimum)
        default_covered == Min3(IntOfProduct(minimum_cover, cover_rate_liquidation),
                                default_amount, cover_available)
    IN [ default_amount |-> default_amount,
         minimum_cover |-> minimum_cover,
         default_covered |-> default_covered,
         vault_loss |-> default_amount - default_covered ]

\* The arguments the calculator is called with: amounts in drops, rates in
\* basis points
Principals == {-100, 0, 100}
Interests == {-5, 5}
DebtTotals == {-100, 100, 1000}
CoversAvailable == {-10, 28, 60, 200}
RatesBp == {-1000, 1000, 2900, 5000, 10000}

NoCall == [fn |-> "none"]

\* A caller calls calculate_vault_loss; it returns its dictionary (it has no
\* raise statement and no operation that can raise on integers and floats).
CallCalculateVaultLoss(p, i, d, c, rm, rl) ==
    /\ calc' = [ fn |-> "calculate_vault_loss",
                 args |-> [ principal_outstanding |-> p, interest_outstanding |-> i,
                            debt_total |-> d, cover_available |-> c,
                            cover_rate_minimum |-> rm, cover_rate_liquidation |-> rl ],
                 raised |-> "none",
                 out |-> calculate_vault_loss(p, i, d, c, rm, rl) ]
    /\ UNCHANGED <<poolVars, now, storeVars, result, nvalidate, mon, objects, conn, escrowVars>>

\* The vaults the share value is computed for
AssetsTotals == {0, 100, 1000}
LossesUnrealized == {0, 10}
SharesTotals == {0, 10, 100}
VaultLosses == {0, 50}

DROPS_PER_XRP == 1000000

\* Vault.share_value: 0.0 without shares, else real_vault_value /
\* shares_total / DROPS_PER_XRP
share_value(assets_total, loss_unrealized, shares_total) ==
    IF shares_total = 0 THEN ZeroRatio
    ELSE Ratio(assets_total - loss_unrealized, shares_total * DROPS_PER_XRP)

\* calculate_share_value_impact, for shares_total # 0. The three values are
\* quotients by shares_total * DROPS_PER_XRP; loss_percentage, the quotient
\* of two of them times 100, is written over their numerators.
calculate_share_value_impact(assets_total_before, loss_unrealized, shares_total, vault_loss) ==
    LET before == assets_total_before - loss_unrealized
        assets_total_after == assets_total_before - vault_loss
        after == assets_total_after - loss_unrealized
        value_before == Ratio(before, shares_total * DROPS_PER_XRP)
        value_after == Ratio(after, shares_total * DROPS_PER_XRP)
        loss_per_share == Ratio(before - after, shares_total * DROPS_PER_XRP)
    IN [ share_value_before |-> value_before,
         share_value_after |-> value_after,
         loss_per_share |-> loss_per_share,
         loss_percentage |-> IF value_before.num > 0
                             THEN Ratio(100 * loss_per_share.num, value_before.num)
                             ELSE ZeroRatio ]

\* A caller reads Vault.share_value.
CallShareValue(a, l, s) ==
    /\ calc' = [ fn |-> "share_value",
                 args |-> [ assets_total |-> a, loss_unrealized |-> l, shares_total |-> s ],
                 raised |-> "none",
                 out |-> share_value(a, l, s) ]
    /\ UNCHANGED <<poolVars, now, storeVars, result, nvalidate, mon, objects, conn, escrowVars>>

\* A caller calls calculate_share_value_impact; the first division, line 98,
\* raises ZeroDivisionError when shares_total is 0.
CallShareValueImpact(a, l, s, v) ==
    /\ calc' = [ fn |-> "calculate_share_value_impact",
                 args |-> [ assets_total_before |-> a, loss_unrealized |-> l,
                            shares_total |-> s, vault_loss |-> v ],
                 raised |-> IF s = 0 THEN "ZeroDivisionError" ELSE "none",
                 out |-> IF s = 0 THEN [none |-> TRUE]
                         ELSE calculate_share_value_impact(a, l, s, v) ]
    /\ UNCHANGED <<poolVars, now, storeVars, result, nvalidate, mon, objects, conn, escrowVars>>

(***************************************************************************)
(* Premium engine (ward/premium.py) and the metrics it reads               *)
(* (ward/models/vault.py, ward/models/loan_broker.py). A metric is the     *)
(* exact quotient; every threshold and factor of the engine is a multiple  *)
(* of 1/100, and a quotient of the amounts used here is as a double on the *)
(* same side of such a threshold as the exact quotient is.                 *)
(***************************************************************************)
\* float('inf'): above every threshold under cross-multiplication
Infinite == Ratio(1, 0)

\* A comparison turned round
RatioNotBelow(r, s) == r.num * s.den >= s.num * r.den
RatioLt(r, s) == r.num * s.den < s.num * r.den
\* A comparison that lets the boundary value fail
RatioAbove(r, s) == r.num * s.den > s.num * r.den
RatioGe(r, s) == r.num * s.den >= s.num * r.den
RatioGt(r, s) == RatioLt(s, r)
Hundredths(n) == Ratio(n, 100)

\* Vault.utilization_rate, and PremiumCalculator._get_utilization, which
\* repeats it
utilization_rate(vault) ==
    IF vault.assets_total = 0 THEN ZeroRatio
    ELSE Ratio(vault.assets_total - vault.assets_available, vault.assets_total)

\* Vault.impairment_ratio
impairment_ratio(vault) ==
    IF vault.assets_total = 0 THEN ZeroRatio
    ELSE Ratio(vault.loss_unrealized, vault.assets_total)

\* LoanBroker.minimum_cover_required: int(debt_total * cover_rate_minimum)
minimum_cover_required(loan_broker) ==
    IntOfProduct(loan_broker.debt_total, loan_broker.cover_rate_minimum)

\* LoanBroker.coverage_ratio
coverage_ratio(loan_broker) ==
    IF minimum_cover_required(loan_broker) = 0 THEN Infinite
    ELSE Ratio(loan_broker.cover_available, minimum_cover_required(loan_broker))

\* PremiumCalculator.BASE_RATES, in hundredths
BASE_RATES == [ safest |-> 1, safe |-> 2, moderate |-> 3, elevated |-> 4, high |-> 5 ]

\* _calculate_base_rate: the if/elif chain over the three metrics
RiskTier(cr, ir, u) ==
    IF RatioGe(cr, Hundredths(200)) /\ RatioLt(ir, Hundredths(1)) /\ RatioLt(u, Hundredths(50))
    THEN "safest"
    ELSE IF RatioGe(cr, Hundredths(150)) /\ RatioLt(ir, Hundredths(5)) /\ RatioLt(u, Hundredths(70))
    THEN "safe"
    ELSE IF RatioGe(cr, Hundredths(100)) /\ RatioLt(ir, Hundredths(10)) /\ RatioLt(u, Hundredths(85))
    THEN "moderate"
    ELSE IF RatioGe(cr, Hundredths(50)) /\ RatioLt(ir, Hundredths(20)) /\ RatioLt(u, Hundredths(95))
    THEN "elevated"
    ELSE "high"

_calculate_base_rate(vault, loan_broker) ==
    LET tier == RiskTier(coverage_ratio(loan_broker), impairment_ratio(vault),
                         utilization_rate(vault))
    IN [ base_rate |-> BASE_RATES[tier], risk_tier |-> tier ]

\* The vaults and brokers the engine is asked about: every tier and every
\* threshold of the tables occurs, the boundary values included.
PremiumVaults ==
    { [ assets_total |-> 100, assets_available |-> a, loss_unrealized |-> l ] :
        a \in {100, 70, 50, 30, 15, 5}, l \in {0, 1, 5, 10, 20, 21} }
    \cup { [ assets_total |-> 0, assets_available |-> 0, loss_unrealized |-> 0 ] }
PremiumBrokers ==
    { [ debt_total |-> 100, cover_available |-> c, cover_rate_minimum |-> 10000 ] :
        c \in {0, 50, 100, 150, 200, 250, 301} }
    \cup { [ debt_total |-> 0, cover_available |-> 50, cover_rate_minimum |-> 10000 ] }

\* The metrics as calculate_premium reports them in risk_factors
RiskMetrics(vault, loan_broker) ==
    [ utilization |-> utilization_rate(vault),
      coverage_ratio |-> coverage_ratio(loan_broker),
      impairment_ratio |-> impairment_ratio(vault) ]

\* A caller asks for the base rate of a vault and its broker.
CallCalculateBaseRate(vault, loan_broker) ==
    /\ calc' = [ fn |-> "_calculate_base_rate",
                 args |-> [ vault |-> vault, loan_broker |-> loan_broker ],
                 metrics |-> RiskMetrics(vault, loan_broker),
                 raised |-> "none",
                 out |-> _calculate_base_rate(vault, loan_broker) ]
    /\ UNCHANGED <<poolVars, now, storeVars, result, nvalidate, mon, objects, conn, escrowVars>>

\* PremiumCalculator(): min_multiplier = 0.5, max_multiplier = 2.0
min_multiplier == Ratio(1, 2)
max_multiplier == Ratio(2, 1)

\* historical_default_rate: None, or a rate
NoHistory == [ given |-> FALSE, rate |-> ZeroRatio ]
HistoricalDefaultRates ==
    { NoHistory } \cup { [ given |-> TRUE, rate |-> Hundredths(h) ] : h \in {0, 5, 10, 11} }

\* The four adjustments of _calculate_risk_multiplier, in hundredths (100
\* where no branch is taken)
UtilizationFactor(u) ==
    IF RatioGt(u, Hundredths(90)) THEN 150
    ELSE IF RatioGt(u, Hundredths(80)) THEN 125
    ELSE IF RatioLt(u, Hundredths(30)) THEN 75
    ELSE 100

CoverageFactor(cr) ==
    IF RatioLt(cr, Hundredths(100)) THEN 180
    ELSE IF RatioLt(cr, Hundredths(150)) THEN 130
    ELSE IF RatioGt(cr, Hundredths(300)) THEN 80
    ELSE 100

ImpairmentFactor(ir) ==
    IF RatioGt(ir, Hundredths(20)) THEN 160
    ELSE IF RatioGt(ir, Hundredths(10)) THEN 130
    ELSE IF ir.num = 0 THEN 90
    ELSE 100

HistoryFactor(historical_default_rate) ==
    IF ~historical_default_rate.given THEN 100
    ELSE IF RatioGt(historical_default_rate.rate, Hundredths(10)) THEN 150
    ELSE IF RatioGt(historical_default_rate.rate, Hundredths(5)) THEN 120
    ELSE IF RatioLt(historical_default_rate.rate, Hundredths(1)) THEN 85
    ELSE 100

\* A clamp that lets every product through
Unclamped(total_adjustment) == total_adjustment

\* max(self.min_multiplier, min(self.max_multiplier, total_adjustment))
ClampMultiplier(total_adjustment) ==
    IF RatioLt(total_adjustment, min_multiplier) THEN min_multiplier
    ELSE IF RatioLt(max_multiplier, total_adjustment) THEN max_multiplier
    ELSE total_adjustment

\* _calculate_risk_multiplier: the product of the four adjustments, clamped.
\* The factors are kept beside the multiplier, in the order they were applied.
_calculate_risk_multiplier(vault, loan_broker, historical_default_rate) ==
    LET fu == UtilizationFactor(utilization_rate(vault))
        fc == CoverageFactor(coverage_ratio(loan_broker))
        fi == ImpairmentFactor(impairment_ratio(vault))
        fh == HistoryFactor(historical_default_rate)
        total_adjustment == Ratio(fu * fc * fi * fh, 100 * 100 * 100 * 100)
    IN [ risk_multiplier |-> ClampMultiplier(total_adjustment),
         applied |-> <<fu, fc, fi, fh>> ]

\* A caller asks for the risk multiplier of a vault and its broker.
CallCalculateRiskMultiplier(vault, loan_broker, historical_default_rate) ==
    /\ calc' = [ fn |-> "_calculate_risk_multiplier",
                 args |-> [ vault |-> vault, loan_broker |-> loan_broker,
                            historical_default_rate |-> historical_default_rate ],
                 metrics |-> RiskMetrics(vault, loan_broker),
                 raised |-> "none",
                 out |-> _calculate_risk_multiplier(vault, loan_broker, historical_default_rate) ]
    /\ UNCHANGED <<poolVars, now, storeVars, result, nvalidate, mon, objects, conn, escrowVars>>

\* The quotes asked for: coverage in drops, term in days, and a selection of
\* the vaults, brokers and default rates above
QuotedCoverages == {0, 100, 1000}
QuotedTerms == {0, 90, 365}
QuotedVaults ==
    { v \in PremiumVaults : v.assets_available \in {100, 50, 5} /\ v.loss_unrealized \in {0, 5, 21} }
QuotedBrokers ==
    { b \in PremiumBrokers : b.debt_total = 100 /\ b.cover_available \in {50, 150, 301} }
QuotedDefaultRates ==
    { h \in HistoricalDefaultRates : h.given => h.rate.num \in {0, 10} }

RECURSIVE GCD(_, _)
GCD(a, b) == IF b = 0 THEN a ELSE GCD(b, a % b)

\* the same quotient in lowest terms
Lowest(r) == Ratio(r.num \div GCD(r.num, r.den), r.den \div GCD(r.num, r.den))

\* floor(a * r) for a >= 0 and a ratio r >= 0, without forming a * r.num
FloorOfProduct(a, r) == (a \div r.den) * r.num + ((a % r.den) * r.num) \div r.den

\* The quotes <<coverage_amount, base_rate, term_days, adjustments>>, among
\* those asked for, whose exact value is a whole number of drops and whose
\* double product coverage_amount * base_rate * term_factor * risk_multiplier
\* comes out just below it (1000 * 0.03 * 1.0 * (0.75 * 1.2) =
\* 26.999999999999996).
InexactPremiums ==
    { <<1000, 3, 365, <<75, 100, 100, 120>> >>,
      <<1000, 5, 365, <<150, 100, 100, 120>> >> }

\* calculate_premium: int(coverage_amount * base_rate * term_factor *
\* risk_multiplier), the double product truncated, and the parts it was
\* computed from (base_rate and annual_rate_effective in hundredths)
calculate_premium(coverage_amount, term_days, vault, loan_broker, historical_default_rate) ==
    LET rated == _calculate_base_rate(vault, loan_broker)
        adjusted == _calculate_risk_multiplier(vault, loan_broker, historical_default_rate)
        risk_multiplier == Lowest(adjusted.risk_multiplier)
        exact == FloorOfProduct(coverage_amount * rated.base_rate * term_days,
                                risk_multiplier) \div (100 * 365)
    IN [ premium |-> IF <<coverage_amount, rated.base_rate, term_days, adjusted.applied>>
                           \in InexactPremiums
                     THEN exact - 1 ELSE exact,
         base_rate |-> rated.base_rate,
         risk_tier |-> rated.risk_tier,
         risk_multiplier |-> risk_multiplier,
         term_factor |-> Ratio(term_days, 365),
         annual_rate_effective |-> Ratio(rated.base_rate * risk_multiplier.num,
                                         risk_multiplier.den) ]

\* A caller asks for a quote.
CallCalculatePremium(coverage_amount, term_days, vault, loan_broker, historical_default_rate) ==
    /\ calc' = [ fn |-> "calculate_premium",
                 args |-> [ coverage_amount |-> coverage_amount, term_days |-> term_days,
                            vault |-> vault, loan_broker |-> loan_broker,
                            historical_default_rate |-> historical_default_rate ],
                 metrics |-> RiskMetrics(vault, loan_broker),
                 raised |-> "none",
                 out |-> calculate_premium(coverage_amount, term_days, vault, loan_broker,
                                           historical_default_rate) ]
    /\ UNCHANGED <<poolVars, now, storeVars, result, nvalidate, mon, objects, conn, escrowVars>>

(***************************************************************************)
(* Default monitor (ward/monitor.py). start() takes the messages of the    *)
(* stream one at a time; _handle_transaction is modelled step by step, one *)
(* action per awaited ledger request.                                       *)
(***************************************************************************)
\* _handle_transaction: TF_LOAN_DEFAULT = 0x00010000
TF_LOAN_DEFAULT == 65536

\* The ledger objects the monitor can be asked to fetch. Rates are in basis
\* points; the vault of broker B2 has no shares.
LedgerLoans ==
    [ L1 |-> [ loan_id |-> "L1", loan_broker_id |-> "B1",
               principal_outstanding |-> 100, interest_outstanding |-> 5 ],
      L2 |-> [ loan_id |-> "L2", loan_broker_id |-> "B2",
               principal_outstanding |-> 100, interest_outstanding |-> 5 ] ]
LedgerBrokers ==
    [ B1 |-> [ loan_broker_id |-> "B1", vault_id |-> "V1", debt_total |-> 1000,
               cover_available |-> 60, cover_rate_minimum |-> 1000,
               cover_rate_liquidation |-> 5000 ],
      B2 |-> [ loan_broker_id |-> "B2", vault_id |-> "V2", debt_total |-> 1000,
               cover_available |-> 60, cover_rate_minimum |-> 1000,
               cover_rate_liquidation |-> 5000 ] ]
LedgerVaults ==
    [ V1 |-> [ vault_id |-> "V1", assets_total |-> 1000, loss_unrealized |-> 0,
               shares_total |-> 100 ],
      V2 |-> [ vault_id |-> "V2", assets_total |-> 1000, loss_unrealized |-> 0,
               shares_total |-> 0 ] ]
LedgerObjects == DOMAIN LedgerBrokers \cup DOMAIN LedgerVaults

\* The objects as the ledger holds them after `version` changes: each change
\* of a broker takes 30 of its first-loss cover, each change of a vault 100
\* of its assets
BrokerAt(id, version) ==
    [LedgerBrokers[id] EXCEPT !.cover_available = @ - 30 * version]
VaultAt(id, version) ==
    [LedgerVaults[id] EXCEPT !.assets_total = @ - 100 * version]

\* A cache of the monitor: the version it holds of each object it has
NoCache == [o \in {} |-> 0]
Cached(cache, id, version) ==
    [o \in DOMAIN cache \cup {id} |-> IF o = id THEN version ELSE cache[o]]

\* A transaction on the ledger changes a broker or a vault
LedgerChange(id) ==
    /\ objects[id].version < MaxVersion
    /\ objects' = [objects EXCEPT ![id] = [version |-> @.version + 1, changed_at |-> now]]
    /\ UNCHANGED <<poolVars, now, storeVars, result, nvalidate, calc, mon, conn, escrowVars>>

\* The messages of the stream: a ledger close, a payment, a LoanManage
\* without the default flag, and a LoanManage default of each loan
StreamMessages ==
    { [ type |-> "ledgerClosed", TransactionType |-> "", Flags |-> 0, LoanID |-> "" ],
      [ type |-> "transaction", TransactionType |-> "Payment", Flags |-> 0, LoanID |-> "" ],
      [ type |-> "transaction", TransactionType |-> "LoanManage", Flags |-> 0, LoanID |-> "L1" ] }
    \cup { [ type |-> "transaction", TransactionType |-> "LoanManage",
             Flags |-> TF_LOAN_DEFAULT, LoanID |-> l ] : l \in DOMAIN LedgerLoans }

\* What an awaited client.request comes back with: a successful response,
\* an unsuccessful one, or an exception raised when the wait ran out
FetchOutcomes == {"ok", "unsuccessful", "timeout"}

Callbacks == {"cb1", "cb2"}
NoLocals == [ loan_id |-> "", loan_broker_id |-> "", broker_version |-> 0, vault_id |-> "", vault_version |-> 0, vault_loss |-> 0 ]

\* XLS66Monitor(): not running, no callbacks, every broker monitored, empty
\* caches. received counts the messages taken; failed, skipped and delivered
\* are histories: the messages whose fetch failed, the messages dropped for
\* another reason, the <<callback index, message>> pairs called back, and
\* the brokers taken off the monitored list and not put back since.
NewMonitor ==
    [ running |-> FALSE,
      default_callbacks |-> <<>>,
      monitored_loan_brokers |-> {},
      loan_broker_cache |-> NoCache,
      vault_cache |-> NoCache,
      pc |-> "idle",
      received |-> 0,
      locals |-> NoLocals,
      failed |-> {},
      skipped |-> {},
      delivered |-> {},
      removed |-> {} ]

\* The event is handed to the callbacks whatever the fetches gave
DeliverAnyway(m) ==
    [m EXCEPT !.pc = "trigger", !.failed = @ \cup {m.received}]

\* _handle_transaction's except clause after a failed fetch: the error is
\* logged and the handler returns; start()'s loop takes the next message
OnFetchError(m) ==
    [m EXCEPT !.pc = "idle", !.locals = NoLocals, !.failed = @ \cup {m.received}]

\* the handler returns without an event for another reason
DropMessage(m) ==
    [m EXCEPT !.pc = "idle", !.locals = NoLocals, !.skipped = @ \cup {m.received}]

MonitorUnchanged == UNCHANGED <<poolVars, now, storeVars, result, nvalidate, calc, objects, conn, escrowVars>>

\* on_default(callback)
OnDefault(callback) ==
    /\ Len(mon.default_callbacks) < MaxCallbacks
    /\ mon' = [mon EXCEPT !.default_callbacks = Append(@, callback)]
    /\ MonitorUnchanged

\* add_loan_broker(loan_broker_id)
AddLoanBroker(loan_broker_id) ==
    /\ mon' = [mon EXCEPT !.monitored_loan_brokers = @ \cup {loan_broker_id},
                          !.removed = @ \ {loan_broker_id}]
    /\ MonitorUnchanged

\* remove_loan_broker(loan_broker_id)
RemoveLoanBroker(loan_broker_id) ==
    /\ mon' = [mon EXCEPT !.monitored_loan_brokers = @ \ {loan_broker_id},
                          !.removed = @ \cup ({loan_broker_id} \cap mon.monitored_loan_brokers)]
    /\ MonitorUnchanged

\* start(), up to the message loop
Start ==
    /\ ~mon.running
    /\ mon.pc = "idle"
    /\ mon' = [mon EXCEPT !.running = TRUE]
    /\ MonitorUnchanged

IsDefault(message) ==
    /\ message.type = "transaction"
    /\ message.TransactionType = "LoanManage"
    /\ (message.Flags \div TF_LOAN_DEFAULT) % 2 = 1

\* The loop takes a message: _handle_message and _handle_transaction up to
\* the first await. Anything but a LoanManage default is done with at once.
Receive(message) ==
    /\ mon.running
    /\ mon.pc = "idle"
    /\ mon.received < MaxMessages
    /\ mon' = IF IsDefault(message)
              THEN [mon EXCEPT !.received = @ + 1, !.pc = "get_loan",
                               !.locals = [NoLocals EXCEPT !.loan_id = message.LoanID]]
              ELSE [mon EXCEPT !.received = @ + 1]
    /\ MonitorUnchanged

\* _get_loan returns or raises
GetLoan(outcome) ==
    /\ mon.pc = "get_loan"
    /\ mon' = IF outcome = "ok"
              THEN [mon EXCEPT !.pc = "get_loan_broker",
                               !.locals.loan_broker_id =
                                   LedgerLoans[mon.locals.loan_id].loan_broker_id]
              ELSE OnFetchError(mon)
    /\ MonitorUnchanged

\* _get_loan_broker returns the cached broker, or fetches it and returns or
\* raises
GetLoanBroker(outcome) ==
    /\ mon.pc = "get_loan_broker"
    /\ mon' = IF mon.locals.loan_broker_id \in DOMAIN mon.loan_broker_cache
              THEN [mon EXCEPT !.pc = "get_vault",
                               !.locals.broker_version =
                                   mon.loan_broker_cache[mon.locals.loan_broker_id],
                               !.locals.vault_id =
                                   LedgerBrokers[mon.locals.loan_broker_id].vault_id]
              ELSE IF outcome = "ok"
              THEN [mon EXCEPT !.pc = "get_vault",
                               !.loan_broker_cache =
                                   Cached(@, mon.locals.loan_broker_id,
                                          objects[mon.locals.loan_broker_id].version),
                               !.locals.broker_version =
                                   objects[mon.locals.loan_broker_id].version,
                               !.locals.vault_id =
                                   LedgerBrokers[mon.locals.loan_broker_id].vault_id]
              ELSE OnFetchError(mon)
    /\ MonitorUnchanged

\* The rest of _handle_transaction once the three objects are there: the
\* monitored-broker check, calculate_vault_loss, the DefaultEvent and
\* calculate_share_value_impact, which raises for a vault without shares
AfterHydration(m) ==
    LET loan == LedgerLoans[m.locals.loan_id]
        loan_broker == BrokerAt(m.locals.loan_broker_id, m.locals.broker_version)
        vault == VaultAt(m.locals.vault_id, m.locals.vault_version)
        loss_calc == calculate_vault_loss(loan.principal_outstanding,
                         loan.interest_outstanding, loan_broker.debt_total,
                         loan_broker.cover_available, loan_broker.cover_rate_minimum,
                         loan_broker.cover_rate_liquidation)
    IN IF m.monitored_loan_brokers # {}
          /\ loan_broker.loan_broker_id \notin m.monitored_loan_brokers
       THEN DropMessage(m)
       ELSE IF vault.shares_total = 0
       THEN DropMessage(m)
       ELSE [m EXCEPT !.pc = "trigger", !.locals.vault_loss = loss_calc.vault_loss]

\* _get_vault returns the cached vault, or fetches it and returns or raises;
\* with the vault the handler runs on to _trigger_callbacks
GetVault(outcome) ==
    /\ mon.pc = "get_vault"
    /\ mon' = IF mon.locals.vault_id \in DOMAIN mon.vault_cache
              THEN AfterHydration([mon EXCEPT !.locals.vault_version =
                                                  mon.vault_cache[mon.locals.vault_id]])
              ELSE IF outcome = "ok"
              THEN AfterHydration([mon EXCEPT !.vault_cache =
                                                  Cached(@, mon.locals.vault_id,
                                                         objects[mon.locals.vault_id].version),
                                              !.locals.vault_version =
                                                  objects[mon.locals.vault_id].version])
              ELSE OnFetchError(mon)
    /\ MonitorUnchanged

\* _trigger_callbacks: every registered callback is called with the event
TriggerCallbacks ==
    /\ mon.pc = "trigger"
    /\ mon' = [mon EXCEPT !.pc = "idle", !.locals = NoLocals,
                          !.delivered = @ \cup { <<i, mon.received>> :
                                                   i \in DOMAIN mon.default_callbacks }]
    /\ MonitorUnchanged

\* stop()
Stop ==
    /\ mon.running
    /\ mon' = [mon EXCEPT !.running = FALSE]
    /\ MonitorUnchanged

\* Loan.LSF_LOAN_DEFAULT = 0x00010000
LSF_LOAN_DEFAULT == 65536

\* Loan.is_defaulted: bool(flags & LSF_LOAN_DEFAULT)
is_defaulted(loan) == (loan.flags \div LSF_LOAN_DEFAULT) % 2 = 1

(***************************************************************************)
(* Policy store (ward/policy.py).                                          *)
(***************************************************************************)
VaultIds == {"V1", "V2"}
PolicyVaultIds == {"V1"}
CoverageAmounts == {80}
TermDays == {1}

\* _store_policy: the row inserted, status 'active'
StorePolicy(vault_id, coverage_amount, coverage_start, coverage_end) ==
    [ vault_id |-> vault_id,
      coverage_amount |-> coverage_amount,
      coverage_start |-> coverage_start,
      coverage_end |-> coverage_end,
      status |-> "active" ]

\* create_policy: coverage starts 24 hours from now and lasts term_days; the
\* NFT mint may fail on the ledger, and then nothing is stored.
CreatePolicy(vault_id, coverage_amount, term_days) ==
    /\ Len(policies) + 1 \in PolicyIds
    /\ \E minted \in BOOLEAN :
          policies' = IF minted
                      THEN Append(policies,
                                  StorePolicy(vault_id, coverage_amount, now + 24,
                                              now + 24 + term_days * 24))
                      ELSE policies
    /\ UNCHANGED <<poolVars, now, claims, validateVars, escrowVars>>

\* UPDATE policies SET status = ... WHERE policy_id = $1
SetPolicyStatus(table, policy_id, status) ==
    [i \in DOMAIN table |-> IF i = policy_id THEN [table[i] EXCEPT !.status = status]
                            ELSE table[i]]

\* expire_policy
ExpirePolicy(policy_id) ==
    /\ policy_id \in DOMAIN policies
    /\ policies' = SetPolicyStatus(policies, policy_id, "expired")
    /\ UNCHANGED <<poolVars, now, claims, validateVars, escrowVars>>

\* cancel_policy
CancelPolicy(policy_id) ==
    /\ policy_id \in DOMAIN policies
    /\ policies' = SetPolicyStatus(policies, policy_id, "cancelled")
    /\ UNCHANGED <<poolVars, now, claims, validateVars, escrowVars>>

(***************************************************************************)
(* Claims table (ward/database.py).                                        *)
(***************************************************************************)

\* create_claim: the row inserted, status 'pending'. "via" is a history
\* field: the caller that inserted the row.
ClaimRow(policy_id, loan_id, loan_manage_tx_hash, vault_id, default_amount, default_covered, vault_loss, claim_payout, via) ==
    [ policy_id |-> policy_id,
      loan_id |-> loan_id,
      loan_manage_tx_hash |-> loan_manage_tx_hash,
      vault_id |-> vault_id,
      default_amount |-> default_amount,
      default_covered |-> default_covered,
      vault_loss |-> vault_loss,
      claim_payout |-> claim_payout,
      status |-> "pending",
      escrow_tx_hash |-> "",
      settlement_tx_hash |-> "",
      rejection_reason |-> "",
      escrow_sequence |-> 0,
      via |-> via ]

\* update_claim_status: one UPDATE chosen by the status and by which optional
\* argument is given ("" is None); any other combination writes nothing. The
\* UPDATE has no condition on the row's current status.
update_claim_status(table, claim_id, status, escrow_tx_hash, settlement_tx_hash, rejection_reason) ==
    [i \in DOMAIN table |->
        IF i # claim_id THEN table[i]
        ELSE IF status = "validated"
             THEN [table[i] EXCEPT !.status = status]
        ELSE IF status = "escrowed" /\ escrow_tx_hash # ""
             THEN [table[i] EXCEPT !.status = status, !.escrow_tx_hash = escrow_tx_hash]
        ELSE IF status = "settled" /\ settlement_tx_hash # ""
             THEN [table[i] EXCEPT !.status = status,
                                   !.settlement_tx_hash = settlement_tx_hash]
        ELSE IF status = "rejected" /\ rejection_reason # ""
             THEN [table[i] EXCEPT !.status = status, !.rejection_reason = rejection_reason]
        ELSE table[i]]

\* get_claims(policy_id, limit=1): the newest claims row of that policy_id
\* (ORDER BY created_at DESC LIMIT 1), as a list of at most one row
get_claims(table, policy_id) ==
    LET hits == {i \in DOMAIN table : table[i].policy_id = policy_id}
    IN IF hits = {} THEN <<>>
       ELSE <<table[CHOOSE i \in hits : \A j \in hits : j <= i]>>

(***************************************************************************)
(* Claim validation (ward/validator.py).                                   *)
(***************************************************************************)
LoanIds == {"L1"}
TxHashes == {"T1"}
Loans == [ loan_id : LoanIds, flags : {0, LSF_LOAN_DEFAULT},
           principal_outstanding : {100}, interest_outstanding : {0} ]
\* three brokers: the default fully covered, half covered, not covered
LoanBrokers ==
    { [debt_total |-> 1000, cover_available |-> 200,
       cover_rate_minimum |-> 10000, cover_rate_liquidation |-> 10000],
      [debt_total |-> 100, cover_available |-> 60,
       cover_rate_minimum |-> 10000, cover_rate_liquidation |-> 5000],
      [debt_total |-> 0, cover_available |-> 0,
       cover_rate_minimum |-> 10000, cover_rate_liquidation |-> 5000] }
DbFailures == {"none", "get_claims", "create_claim", "update_claim_status"}
\* The calls made: every combination of a loan, defaulted or not, that
\* leaves a loss with a policy_id, a vault and a failing database call, and
\* one call each for a loan whose broker covers it fully (those return
\* before the other arguments are read).
ValidateCalls ==
    LET lossy == {b \in LoanBrokers : b.cover_available < 100}
        covered == CHOOSE b \in LoanBrokers : b.cover_available >= 100
    IN [ loan : Loans, broker : lossy,
         policy_id : PolicyIds \cup UnknownPolicyIds, vault_id : VaultIds,
         tx_hash : TxHashes, fails : DbFailures ]
       \cup [ loan : Loans, broker : {covered}, policy_id : PolicyIds,
              vault_id : PolicyVaultIds, tx_hash : TxHashes, fails : {"none"} ]
ClaimPayouts == {20}

ValidationResult(approved, claim_payout, vault_loss, policy_coverage, rejection_reason, claim_id) ==
    [ approved |-> approved, claim_payout |-> claim_payout, vault_loss |-> vault_loss,
      policy_coverage |-> policy_coverage, rejection_reason |-> rejection_reason,
      claim_id |-> claim_id ]

\* What validate_claim reads off the row it calls "policy": dict(row) of a
\* claims row. The claims table has the columns status and vault_id, and no
\* coverage_start, coverage_end or coverage_amount: .get() of those gives
\* None, None and the default 0.
PolicyDict(row) ==
    [ status |-> row.status,
      vault_id |-> row.vault_id,
      has_coverage_start |-> FALSE, coverage_start |-> 0,
      has_coverage_end |-> FALSE, coverage_end |-> 0,
      coverage_amount |-> 0 ]

\* A step 3 that reads the policies table instead: the row of policy_id, with
\* its own status, window, vault and coverage amount.
FetchPoliciesFromStore(table, policy_id) ==
    IF policy_id \in DOMAIN policies
    THEN << [ status |-> policies[policy_id].status,
              vault_id |-> policies[policy_id].vault_id,
              has_coverage_start |-> TRUE,
              coverage_start |-> policies[policy_id].coverage_start,
              has_coverage_end |-> TRUE,
              coverage_end |-> policies[policy_id].coverage_end,
              coverage_amount |-> policies[policy_id].coverage_amount ] >>
    ELSE <<>>

\* Step 3: policies = await self.db.get_claims(policy_id=policy_id, limit=1)
FetchPolicies(table, policy_id) ==
    LET rows == get_claims(table, policy_id)
    IN [i \in DOMAIN rows |-> PolicyDict(rows[i])]

\* A step 1 that lets every loan through
DefaultIgnored(loan) == FALSE

\* Step 1: not loan.is_defaulted rejects
LoanNotDefaulted(loan) == ~is_defaulted(loan)

\* A step 4 that lets every status through
PolicyStatusIgnored(policy) == FALSE

\* Step 4: policy.get('status') != 'active' rejects
PolicyNotActive(policy) == policy.status # "active"

\* validate_claim, whole: the result returned, the claims table left behind
\* and the database calls the call made, in order (the last one may have
\* raised). fails names the database call that raises, if any.
validate_claim(table, loan, policy_id, broker, vault_id, tx_hash, utcnow, fails) ==
    LET loss_calc == calculate_vault_loss(loan.principal_outstanding,
                                          loan.interest_outstanding, broker.debt_total,
                                          broker.cover_available, broker.cover_rate_minimum,
                                          broker.cover_rate_liquidation)
        vault_loss == loss_calc.vault_loss
        policies_ == FetchPolicies(table, policy_id)
        policy == policies_[1]
        policy_coverage == policy.coverage_amount
        claim_payout == Min(vault_loss, policy_coverage)
        created == Append(table, ClaimRow(policy_id, loan.loan_id, tx_hash, vault_id,
                                          loss_calc.default_amount,
                                          loss_calc.default_covered, vault_loss,
                                          claim_payout, "validate_claim"))
        claim_id == Len(created)
        read == <<"get_claims">>
        Reject(vl, cov, reason, db_calls) ==
            [ out |-> ValidationResult(FALSE, 0, vl, cov, reason, 0), claims |-> table,
              db_calls |-> db_calls ]
    IN IF LoanNotDefaulted(loan)
            THEN Reject(0, 0, "Loan not defaulted", <<>>)
       ELSE IF vault_loss <= 0
            THEN Reject(0, 0, "No vault loss occurred", <<>>)
       ELSE IF fails = "get_claims"
            THEN Reject(vault_loss, 0, "Database error fetching policy", read)
       ELSE IF Len(policies_) = 0
            THEN Reject(vault_loss, 0, "Policy not found", read)
       ELSE IF PolicyNotActive(policy)
            THEN Reject(vault_loss, policy.coverage_amount, "Policy not active", read)
       ELSE IF policy.has_coverage_start /\ utcnow < policy.coverage_start
            THEN Reject(vault_loss, policy.coverage_amount, "Coverage not started", read)
       ELSE IF policy.has_coverage_end /\ utcnow > policy.coverage_end
            THEN Reject(vault_loss, policy.coverage_amount, "Policy expired", read)
       ELSE IF vault_id # policy.vault_id
            THEN Reject(vault_loss, policy.coverage_amount, "VaultID mismatch", read)
       \* Steps 8 and 9 are log lines only.
       ELSE IF fails = "create_claim"
            THEN Reject(vault_loss, policy_coverage, "Database error creating claim",
                        <<"get_claims", "create_claim">>)
       ELSE IF fails = "update_claim_status"
            THEN [ out |-> ValidationResult(FALSE, 0, vault_loss, policy_coverage,
                                            "Database error creating claim", 0),
                   claims |-> created,
                   db_calls |-> <<"get_claims", "create_claim", "update_claim_status">> ]
       ELSE [ out |-> ValidationResult(TRUE, claim_payout, vault_loss, policy_coverage,
                                       "", claim_id),
              claims |-> update_claim_status(created, claim_id, "validated", "", "", ""),
              db_calls |-> <<"get_claims", "create_claim", "update_claim_status">> ]

NotCalled == [called |-> FALSE]

\* The vault loss the waterfall leaves for a loan and its broker
WaterfallLoss(loan, broker) ==
    calculate_vault_loss(loan.principal_outstanding, loan.interest_outstanding,
                         broker.debt_total, broker.cover_available,
                         broker.cover_rate_minimum, broker.cover_rate_liquidation).vault_loss

\* A caller awaits validate_claim. The call is one step: every database call
\* in it is a single statement. result keeps the claim's key, the policy_id,
\* what the policy store held for that policy_id at the call (its status, or
\* "missing"; whether the call fell in its coverage window; whether it
\* covers the vault of the call), whether the loan of the call was defaulted
\* and left a vault loss, the database calls made, and the ValidationResult.
ValidateClaim(loan, policy_id, broker, vault_id, tx_hash, fails) ==
    /\ nvalidate < MaxValidate
    /\ LET r == validate_claim(claims, loan, policy_id, broker, vault_id, tx_hash, now, fails)
       IN /\ DOMAIN r.claims \subseteq ClaimIds
          /\ claims' = r.claims
          /\ result' = [ called |-> TRUE,
                         loan_id |-> loan.loan_id, tx_hash |-> tx_hash,
                         policy_id |-> policy_id,
                         policy_status |-> IF policy_id \in DOMAIN policies
                                           THEN policies[policy_id].status
                                           ELSE "missing",
                         in_window |-> /\ policy_id \in DOMAIN policies
                                       /\ policies[policy_id].coverage_start <= now
                                       /\ now <= policies[policy_id].coverage_end,
                         vault_match |-> /\ policy_id \in DOMAIN policies
                                         /\ policies[policy_id].vault_id = vault_id,
                         defaulted |-> is_defaulted(loan),
                         has_loss |-> WaterfallLoss(loan, broker) > 0,
                         db_calls |-> r.db_calls,
                         out |-> r.out ]
    /\ nvalidate' = nvalidate + 1
    /\ UNCHANGED <<poolVars, now, policies, escrowVars, calc, mon, objects, conn>>

\* WardDatabase.create_claim called directly by a user of the SDK
DbCreateClaim(policy_id, loan_id, tx_hash, vault_id, claim_payout) ==
    /\ Len(claims) + 1 \in ClaimIds
    /\ claims' = Append(claims, ClaimRow(policy_id, loan_id, tx_hash, vault_id,
                                         claim_payout, 0, claim_payout,
                                         claim_payout, "create_claim"))
    /\ UNCHANGED <<poolVars, now, policies, validateVars, escrowVars>>

\* WardDatabase.update_claim_status(claim_id, 'validated') called directly
DbValidateClaim(claim_id) ==
    /\ claim_id \in DOMAIN claims
    /\ claims' = update_claim_status(claims, claim_id, "validated", "", "", "")
    /\ UNCHANGED <<poolVars, now, policies, validateVars, escrowVars>>

(***************************************************************************)
(* Escrow controller (ward/escrow.py) and the ledger's escrow objects.     *)
(***************************************************************************)
\* ClaimEscrow.DISPUTE_WINDOW_HOURS, ClaimEscrow.CANCEL_BUFFER_HOURS
DISPUTE_WINDOW_HOURS == 48
CANCEL_BUFFER_HOURS == 72

\* What submit_and_wait can come back with: applied, or refused by the ledger
Responses == {"tesSUCCESS", "tecFAILED"}

\* A check of the response that lets every response through
ResponseIgnored(response) == TRUE

\* response.is_successful()
is_successful(response) == response = "tesSUCCESS"

\* An escrow object whose cancel_after is counted from the creation time
\* instead of from finish_after
EscrowObjectFromNow(claim_id, payout_amount, utcnow) ==
    [ state |-> "open",
      amount |-> payout_amount,
      finish_after |-> utcnow + DISPUTE_WINDOW_HOURS,
      cancel_after |-> utcnow + CANCEL_BUFFER_HOURS,
      claim_id |-> claim_id,
      effects |-> <<>> ]

\* The escrow object an applied EscrowCreate leaves on the ledger. claim_id is
\* the memo; effects is a history field: the finish and cancel calls that
\* went on to update the store after naming this escrow.
EscrowObject(claim_id, payout_amount, utcnow) ==
    [ state |-> "open",
      amount |-> payout_amount,
      finish_after |-> utcnow + DISPUTE_WINDOW_HOURS,
      cancel_after |-> utcnow + DISPUTE_WINDOW_HOURS + CANCEL_BUFFER_HOURS,
      claim_id |-> claim_id,
      effects |-> <<>> ]

\* account_objects lists the escrows still on the ledger
OnLedger(ledger, escrow_sequence) ==
    escrow_sequence \in DOMAIN ledger /\ ledger[escrow_sequence].state = "open"

\* A status that looks at no time: every escrow on the ledger can be finished
\* and cancelled
StatusWithoutTimes(ledger, escrow_sequence, utcnow) ==
    IF ~OnLedger(ledger, escrow_sequence)
    THEN [ amount |-> 0, status |-> "finished_or_cancelled",
           can_finish |-> FALSE, can_cancel |-> FALSE ]
    ELSE [ amount |-> ledger[escrow_sequence].amount, status |-> "cancellable",
           can_finish |-> TRUE, can_cancel |-> TRUE ]

\* get_escrow_status
get_escrow_status(ledger, escrow_sequence, utcnow) ==
    IF ~OnLedger(ledger, escrow_sequence)
    THEN [ amount |-> 0, status |-> "finished_or_cancelled",
           can_finish |-> FALSE, can_cancel |-> FALSE ]
    ELSE LET can_finish == utcnow >= ledger[escrow_sequence].finish_after
             can_cancel == utcnow >= ledger[escrow_sequence].cancel_after
         IN [ amount |-> ledger[escrow_sequence].amount,
              status |-> IF can_finish /\ ~can_cancel THEN "finishable"
                         ELSE IF can_cancel THEN "cancellable"
                         ELSE "pending",
              can_finish |-> can_finish, can_cancel |-> can_cancel ]

\* _store_escrow_sequence
store_escrow_sequence(table, claim_id, escrow_sequence) ==
    [i \in DOMAIN table |->
        IF i = claim_id THEN [table[i] EXCEPT !.escrow_sequence = escrow_sequence]
        ELSE table[i]]

IdleETask == [op |-> "none", pc |-> "idle", claim_id |-> 0, seq |-> 0, reason |-> "", res |-> "none"]
StartETask(t, op, pc, claim_id, seq) ==
    [etasks EXCEPT ![t] = [op |-> op, pc |-> pc, claim_id |-> claim_id, seq |-> seq,
                           reason |-> "", res |-> "running"]]
EndETask(t, res) == [etasks EXCEPT ![t].pc = "idle", ![t].res = res]
Effect(ledger, escrow_sequence, op, claim_id) ==
    [i \in DOMAIN ledger |->
        IF i = escrow_sequence
        THEN [ledger[i] EXCEPT !.effects = Append(@, [op |-> op, claim_id |-> claim_id])]
        ELSE ledger[i]]

\* create_claim_escrow, lines 94-123: the times are taken, EscrowCreate is
\* submitted and the ledger applies or refuses it.
CreateEscrowSubmit(t, claim_id, payout_amount) ==
    /\ etasks[t].pc = "idle"
    /\ ncalls < MaxCalls
    /\ ncalls' = ncalls + 1
    /\ \E response \in Responses :
          /\ response = "tesSUCCESS" => Len(escrows) + 1 \in EscrowSeqs
          /\ escrows' = IF response = "tesSUCCESS"
                        THEN Append(escrows, EscrowObject(claim_id, payout_amount, now))
                        ELSE escrows
          /\ etasks' = IF is_successful(response)
                       THEN StartETask(t, "create", "update", claim_id, Len(escrows'))
                       ELSE [etasks EXCEPT ![t] = [op |-> "create", pc |-> "idle",
                                                   claim_id |-> claim_id, seq |-> 0,
                                                   reason |-> "", res |-> "failed"]]
    /\ UNCHANGED <<poolVars, now, storeVars, validateVars>>

\* create_claim_escrow, lines 126-130
CreateEscrowUpdate(t) ==
    /\ etasks[t].op = "create" /\ etasks[t].pc = "update"
    /\ claims' = update_claim_status(claims, etasks[t].claim_id, "escrowed", "TX", "", "")
    /\ etasks' = [etasks EXCEPT ![t].pc = "store"]
    /\ UNCHANGED <<poolVars, now, policies, validateVars, escrows, ncalls>>

\* create_claim_escrow, lines 133-149
CreateEscrowStore(t) ==
    /\ etasks[t].op = "create" /\ etasks[t].pc = "store"
    /\ claims' = store_escrow_sequence(claims, etasks[t].claim_id, etasks[t].seq)
    /\ etasks' = EndETask(t, "ok")
    /\ UNCHANGED <<poolVars, now, policies, validateVars, escrows, ncalls>>

\* finish_escrow, lines 169-174: the status comes back; not finishable raises
FinishEscrowStatus(t, claim_id, escrow_sequence) ==
    /\ etasks[t].pc = "idle"
    /\ ncalls < MaxCalls
    /\ ncalls' = ncalls + 1
    /\ etasks' = IF get_escrow_status(escrows, escrow_sequence, now).can_finish
                 THEN StartETask(t, "finish", "submit", claim_id, escrow_sequence)
                 ELSE [etasks EXCEPT ![t] = [op |-> "finish", pc |-> "idle",
                                             claim_id |-> claim_id,
                                             seq |-> escrow_sequence,
                                             reason |-> "", res |-> "not_finishable"]]
    /\ UNCHANGED <<poolVars, now, storeVars, validateVars, escrows>>

\* finish_escrow, lines 177-188: EscrowFinish is submitted; the ledger
\* applies it only to an escrow it still holds, and releases the funds.
FinishEscrowSubmit(t) ==
    /\ etasks[t].op = "finish" /\ etasks[t].pc = "submit"
    /\ \E response \in Responses :
          /\ response = "tesSUCCESS" => OnLedger(escrows, etasks[t].seq)
          /\ escrows' = IF response = "tesSUCCESS"
                        THEN [escrows EXCEPT ![etasks[t].seq].state = "finished"]
                        ELSE escrows
          /\ etasks' = IF is_successful(response)
                       THEN [etasks EXCEPT ![t].pc = "update"]
                       ELSE EndETask(t, "failed")
    /\ UNCHANGED <<poolVars, now, storeVars, validateVars, ncalls>>

\* finish_escrow, lines 191-199
FinishEscrowUpdate(t) ==
    /\ etasks[t].op = "finish" /\ etasks[t].pc = "update"
    /\ claims' = update_claim_status(claims, etasks[t].claim_id, "settled", "", "TX", "")
    /\ escrows' = Effect(escrows, etasks[t].seq, "finish", etasks[t].claim_id)
    /\ etasks' = EndETask(t, "ok")
    /\ UNCHANGED <<poolVars, now, policies, validateVars, ncalls>>

\* A rejection text that leaves the caller's reason out
CancelledUnexplained(reason) == "Escrow cancelled"

\* cancel_escrow, line 249: f"Escrow cancelled: {reason}"
CancelledBecause(reason) == "Escrow cancelled: " \o reason

\* cancel_escrow, lines 224-229: the status comes back; not cancellable raises
CancelEscrowStatus(t, claim_id, escrow_sequence, reason) ==
    /\ etasks[t].pc = "idle"
    /\ ncalls < MaxCalls
    /\ ncalls' = ncalls + 1
    /\ etasks' = IF get_escrow_status(escrows, escrow_sequence, now).can_cancel
                 THEN [StartETask(t, "cancel", "submit", claim_id, escrow_sequence)
                          EXCEPT ![t].reason = reason]
                 ELSE [etasks EXCEPT ![t] = [op |-> "cancel", pc |-> "idle",
                                             claim_id |-> claim_id,
                                             seq |-> escrow_sequence,
                                             reason |-> reason,
                                             res |-> "not_cancellable"]]
    /\ UNCHANGED <<poolVars, now, storeVars, validateVars, escrows>>

\* cancel_escrow, lines 232-243: EscrowCancel is submitted; the ledger
\* applies it only to an escrow it still holds, and returns the funds.
CancelEscrowSubmit(t) ==
    /\ etasks[t].op = "cancel" /\ etasks[t].pc = "submit"
    /\ \E response \in Responses :
          /\ response = "tesSUCCESS" => OnLedger(escrows, etasks[t].seq)
          /\ escrows' = IF response = "tesSUCCESS"
                        THEN [escrows EXCEPT ![etasks[t].seq].state = "cancelled"]
                        ELSE escrows
          /\ etasks' = IF is_successful(response)
                       THEN [etasks EXCEPT ![t].pc = "update"]
                       ELSE EndETask(t, "failed")
    /\ UNCHANGED <<poolVars, now, storeVars, validateVars, ncalls>>

\* cancel_escrow, lines 246-254
CancelEscrowUpdate(t) ==
    /\ etasks[t].op = "cancel" /\ etasks[t].pc = "update"
    /\ claims' = update_claim_status(claims, etasks[t].claim_id, "rejected", "", "",
                                     CancelledBecause(etasks[t].reason))
    /\ escrows' = Effect(escrows, etasks[t].seq, "cancel", etasks[t].claim_id)
    /\ etasks' = EndETask(t, "ok")
    /\ UNCHANGED <<poolVars, now, policies, validateVars, ncalls>>

(***************************************************************************)
(* API key authentication (src/core/auth.py) and the endpoints of          *)
(* src/main.py that depend on it. A header is <<>> when the request has    *)
(* none, else <<value>>; an environment gives each variable the same way.  *)
(***************************************************************************)
Unset == <<>>

\* os.getenv(name, default)
getenv(env, name, default) == IF env[name] = Unset THEN default ELSE env[name][1]

Environments ==
    { [API_KEY_ADMIN |-> Unset, API_KEY_MONITOR |-> Unset, API_KEY_UNDERWRITER |-> Unset],
      [API_KEY_ADMIN |-> <<"k_admin">>, API_KEY_MONITOR |-> Unset,
       API_KEY_UNDERWRITER |-> Unset],
      [API_KEY_ADMIN |-> <<"k_shared">>, API_KEY_MONITOR |-> <<"k_shared">>,
       API_KEY_UNDERWRITER |-> Unset],
      [API_KEY_ADMIN |-> <<"k_admin">>, API_KEY_MONITOR |-> <<"k_monitor">>,
       API_KEY_UNDERWRITER |-> <<"k_admin">>] }

ApiKeyHeaders ==
    { Unset, <<"">>, <<"ward_admin_2026">>, <<"ward_monitor_2026">>,
      <<"ward_underwriter_2026">>, <<"k_admin">>, <<"k_monitor">>, <<"k_shared">>,
      <<"ward_admin">>, <<"ward_admin_2027">>, <<"invalid_key">> }

ProtectedPaths == {"/xrpl/status", "/admin/api-keys", "/admin/rate-limits"}

\* APIKeyManager.get_valid_keys: the dict literal, as its items in order; a
\* key written twice keeps the value written last
get_valid_keys(env) ==
    << [ key |-> getenv(env, "API_KEY_ADMIN", "ward_admin_2026"),
         name |-> "Ward Admin Key", role |-> "admin" ],
       [ key |-> getenv(env, "API_KEY_MONITOR", "ward_monitor_2026"),
         name |-> "Vault Monitor Service", role |-> "monitor" ],
       [ key |-> getenv(env, "API_KEY_UNDERWRITER", "ward_underwriter_2026"),
         name |-> "Insurance Underwriter", role |-> "underwriter" ] >>

NoKeyData == [name |-> "", role |-> ""]

\* A verify_key that finds every key and takes it for the admin key
AnyKeyAdmin(env, api_key) == [name |-> "Ward Admin Key", role |-> "admin"]

\* APIKeyManager.verify_key: get_valid_keys().get(api_key)
verify_key(env, api_key) ==
    LET items == get_valid_keys(env)
        hits == { i \in DOMAIN items : items[i].key = api_key }
    IN IF hits = {} THEN NoKeyData
       ELSE LET last == CHOOSE i \in hits : \A j \in hits : j <= i
            IN [name |-> items[last].name, role |-> items[last].role]

HTTPException(status_code, detail) ==
    [ raised |-> TRUE, status_code |-> status_code, detail |-> detail, key_data |-> NoKeyData ]

\* verify_api_key: the dependency; it raises or returns the key's metadata
verify_api_key(env, x_api_key) ==
    IF x_api_key = Unset \/ x_api_key = <<"">>
    THEN HTTPException(401, "API key required")
    ELSE LET key_data == verify_key(env, x_api_key[1])
         IN IF key_data = NoKeyData
            THEN HTTPException(401, "Invalid API key")
            ELSE [ raised |-> FALSE, status_code |-> 200, detail |-> "",
                   key_data |-> key_data ]

Response(status_code, detail, handler_ran) ==
    [ status_code |-> status_code, detail |-> detail, handler_ran |-> handler_ran ]

\* list_api_keys and get_rate_limits: the body after the dependency
AdminHandler(auth) ==
    IF auth.role # "admin" THEN Response(403, "Admin access required", TRUE)
    ELSE Response(200, "", TRUE)

\* xrpl_status: the body after the dependency
xrpl_status(auth) == Response(200, "", TRUE)

\* FastAPI resolves Depends(verify_api_key) first; an HTTPException of the
\* dependency is the response and the handler is not called
Endpoint(env, path, x_api_key) ==
    LET auth == verify_api_key(env, x_api_key)
    IN IF auth.raised THEN Response(auth.status_code, auth.detail, FALSE)
       ELSE IF path = "/xrpl/status" THEN xrpl_status(auth.key_data)
       ELSE AdminHandler(auth.key_data)

\* A client sends a request to a protected endpoint
CallEndpoint(env, path, x_api_key) ==
    /\ calc' = [ fn |-> "request",
                 args |-> [ env |-> env, path |-> path, x_api_key |-> x_api_key ],
                 raised |-> "none",
                 out |-> Endpoint(env, path, x_api_key) ]
    /\ UNCHANGED <<poolVars, now, storeVars, result, nvalidate, mon, objects, conn, escrowVars>>

(***************************************************************************)
(* XRPLConnectionPool (src/core/xrpl_client.py). Process 0 is the          *)
(* application awaiting connect(); the others are the tasks connect()      *)
(* creates for _heartbeat_monitor. One action per stretch between awaits.  *)
(* last_heartbeat, connection_uptime_start and successful_requests are     *)
(* written and only reported; they are left out.                           *)
(***************************************************************************)
max_reconnect_attempts == 5

App == 0
Loops == 1..MaxLoops
Procs == {App} \cup Loops

\* __init__, and no task created yet. attempts is a history: the connection
\* tests the connect() call of a process has made; stopped is a history:
\* disconnect() has been called and the application has not called
\* connect() since.
NewConnectionPool ==
    [ is_connected |-> FALSE,
      reconnect_attempts |-> 0,
      failed_requests |-> 0,
      pc |-> [p \in Procs |-> IF p = App THEN "idle" ELSE "none"],
      attempts |-> [p \in Procs |-> 0],
      res |-> "none",
      nconnects |-> 0,
      stopped |-> FALSE ]

ConnectionUnchanged == UNCHANGED <<poolVars, now, storeVars, result, nvalidate, calc, mon, objects, escrowVars>>

Unstarted(c) == { h \in Loops : c.pc[h] = "none" }

\* _heartbeat_monitor: `while self.is_connected:` then the sleep of 30 s
WhileConnected(connected) == IF connected THEN "hb_sleep" ELSE "exited"

\* connect() returns to its caller: the application gets its result, a
\* heartbeat loop goes back to its while test
ConnectReturns(c, p) ==
    IF p = App THEN [c EXCEPT !.pc[p] = "idle", !.res = "ok"]
    ELSE [c EXCEPT !.pc[p] = WhileConnected(c.is_connected)]

\* ConnectionError leaves connect(): the application gets it; in a heartbeat
\* task it leaves the except clause and ends the task
ConnectRaises(c, p) ==
    IF p = App THEN [c EXCEPT !.pc[p] = "idle", !.res = "ConnectionError"]
    ELSE [c EXCEPT !.pc[p] = "dead"]

\* The application calls connect(): the clients are built and
\* _test_connection is awaited
Connect ==
    /\ conn.pc[App] = "idle"
    /\ conn.nconnects < MaxConnects
    /\ conn' = [conn EXCEPT !.pc[App] = "test", !.attempts[App] = 0, !.res = "running",
                            !.nconnects = @ + 1, !.stopped = FALSE]
    /\ ConnectionUnchanged

\* connect(), lines 68-80: the test succeeded; the fields are set and a
\* heartbeat task is created
ConnectSucceeds(p) ==
    /\ conn.pc[p] = "test"
    /\ Unstarted(conn) # {}
    /\ LET h == CHOOSE x \in Unstarted(conn) : \A y \in Unstarted(conn) : x <= y
           c == [conn EXCEPT !.is_connected = TRUE, !.reconnect_attempts = 0,
                             !.attempts[p] = @ + 1, !.pc[h] = "created"]
       IN conn' = ConnectReturns(c, p)
    /\ ConnectionUnchanged

\* connect(), lines 82-93: the test raised; the failure is counted and the
\* call sleeps before it calls connect() again, or raises ConnectionError
ConnectFails(p) ==
    /\ conn.pc[p] = "test"
    /\ conn.failed_requests < MaxFailures
    /\ LET c == [conn EXCEPT !.failed_requests = @ + 1, !.attempts[p] = @ + 1]
       IN conn' = IF conn.reconnect_attempts < max_reconnect_attempts
                  THEN [c EXCEPT !.reconnect_attempts = @ + 1, !.pc[p] = "sleep"]
                  ELSE ConnectRaises(c, p)
    /\ ConnectionUnchanged

\* connect(), lines 90-91: the sleep is over and connect() is called again
ConnectRetries(p) ==
    /\ conn.pc[p] = "sleep"
    /\ conn' = [conn EXCEPT !.pc[p] = "test"]
    /\ ConnectionUnchanged

\* the task created for _heartbeat_monitor starts: its first while test
HeartbeatStarts(h) ==
    /\ conn.pc[h] = "created"
    /\ conn' = [conn EXCEPT !.pc[h] = WhileConnected(conn.is_connected)]
    /\ ConnectionUnchanged

\* _heartbeat_monitor, lines 109-112: the sleep is over, the test is awaited
HeartbeatWakes(h) ==
    /\ conn.pc[h] = "hb_sleep"
    /\ conn' = [conn EXCEPT !.pc[h] = "hb_test"]
    /\ ConnectionUnchanged

\* _heartbeat_monitor, lines 114-119: the test succeeded; the while test
HeartbeatSucceeds(h) ==
    /\ conn.pc[h] = "hb_test"
    /\ conn' = [conn EXCEPT !.pc[h] = WhileConnected(conn.is_connected)]
    /\ ConnectionUnchanged

\* _heartbeat_monitor, lines 121-127: the test raised; is_connected is
\* cleared and connect() is called
HeartbeatFails(h) ==
    /\ conn.pc[h] = "hb_test"
    /\ conn.failed_requests < MaxFailures
    /\ conn' = [conn EXCEPT !.failed_requests = @ + 1, !.is_connected = FALSE,
                            !.pc[h] = "test", !.attempts[h] = 0]
    /\ ConnectionUnchanged

\* disconnect()
Disconnect ==
    /\ conn' = [conn EXCEPT !.is_connected = FALSE, !.stopped = TRUE]
    /\ ConnectionUnchanged

(***************************************************************************)
(* Specifications.                                                         *)
(***************************************************************************)
vars == <<poolVars, now, storeVars, validateVars, escrowVars>>

\* create_pool has run; the store is empty; nothing is in flight.
InitStores ==
    /\ tasks = [t \in Tasks |-> IdleTask]
    /\ nops = 0
    /\ overlapped = FALSE
    /\ now = 0
    /\ policies = <<>>
    /\ claims = <<>>
    /\ result = NotCalled
    /\ nvalidate = 0
    /\ calc = NoCall
    /\ mon = NewMonitor
    /\ objects = [o \in LedgerObjects |-> [version |-> 0, changed_at |-> 0]]
    /\ conn = NewConnectionPool
    /\ escrows = <<>>
    /\ etasks = [t \in ETasks |-> IdleETask]
    /\ ncalls = 0

Init == pool \in {StorePool(c) : c \in InitialCapitals} /\ InitStores

\* An InsurancePool object whose pool_id has no row: create_pool has not run
InitNoPool == pool = NoRow /\ InitStores

\* The pool ledger under concurrent callers.
NextPool ==
    \/ \E t \in Tasks, op \in PoolOps, a \in Amounts : CallPool(t, op, a)
    \/ \E t \in Tasks : DepositRead(t)
    \/ \E t \in Tasks : DepositWrite(t)
    \/ \E t \in Tasks : WithdrawRead(t)
    \/ \E t \in Tasks : WithdrawWrite(t)
    \/ \E t \in Tasks : AddExposureRead(t)
    \/ \E t \in Tasks : AddExposureWrite(t)
    \/ \E t \in Tasks : RemoveExposureRead(t)
    \/ \E t \in Tasks : RemoveExposureWrite(t)
    \/ \E t \in Tasks : PayClaimRead(t)
    \/ \E t \in Tasks : PayClaimSubmit(t)
    \/ \E t \in Tasks : PayClaimUpdateState(t)
    \/ \E t \in Tasks : PayClaimUpdateClaims(t)

SpecPool == Init /\ [][NextPool]_vars

\* The validations of a defaulted loan with a loss, no database call failing
AbsentCalls ==
    { c \in ValidateCalls : /\ c.fails = "none" /\ is_defaulted(c.loan)
                            /\ c.broker.cover_available = 0
                            /\ c.vault_id \in PolicyVaultIds }

\* One caller at a time on a pool that is not stored yet, and validation
\* against a policy store that may lack the policy.
NextAbsent ==
    \/ \E c \in InitialCapitals : CreatePool(c)
    \/ \E t \in SettleTasks, op \in PoolOps \cup {"get_metrics"}, a \in PayoutAmounts :
          CallPool(t, op, a)
    \/ \E t \in SettleTasks : MetricsRead(t)
    \/ \E t \in SettleTasks : DepositRead(t)
    \/ \E t \in SettleTasks : DepositWrite(t)
    \/ \E t \in SettleTasks : WithdrawRead(t)
    \/ \E t \in SettleTasks : WithdrawWrite(t)
    \/ \E t \in SettleTasks : AddExposureRead(t)
    \/ \E t \in SettleTasks : AddExposureWrite(t)
    \/ \E t \in SettleTasks : RemoveExposureRead(t)
    \/ \E t \in SettleTasks : RemoveExposureWrite(t)
    \/ \E t \in SettleTasks : PayClaimRead(t)
    \/ \E t \in SettleTasks : PayClaimSubmit(t)
    \/ \E t \in SettleTasks : PayClaimUpdateState(t)
    \/ \E t \in SettleTasks : PayClaimUpdateClaims(t)
    \/ \E v \in PolicyVaultIds, c \in CoverageAmounts, d \in TermDays : CreatePolicy(v, c, d)
    \/ \E p \in PolicyIds, l \in LoanIds, h \in TxHashes, v \in PolicyVaultIds,
          a \in ClaimPayouts : DbCreateClaim(p, l, h, v, a)
    \/ \E c \in AbsentCalls :
          ValidateClaim(c.loan, c.policy_id, c.broker, c.vault_id, c.tx_hash, c.fails)

SpecAbsent == InitNoPool /\ [][NextAbsent]_vars

\* Requests to the protected endpoints, under every environment.
NextAuth ==
    \E env \in Environments, path \in ProtectedPaths, h \in ApiKeyHeaders :
        CallEndpoint(env, path, h)

SpecAuth == Init /\ [][NextAuth]_vars

\* The connection pool, its connect calls and its heartbeat tasks.
NextConnect ==
    \/ Connect
    \/ \E p \in Procs : ConnectSucceeds(p)
    \/ \E p \in Procs : ConnectFails(p)
    \/ \E p \in Procs : ConnectRetries(p)
    \/ \E h \in Loops : HeartbeatStarts(h)
    \/ \E h \in Loops : HeartbeatWakes(h)
    \/ \E h \in Loops : HeartbeatSucceeds(h)
    \/ \E h \in Loops : HeartbeatFails(h)
    \/ Disconnect

SpecConnect == Init /\ [][NextConnect]_vars

\* Claim validation against the policy store and the claims table.
NextValidate ==
    \/ Tick(MaxValidateTicks)
    \/ \E v \in PolicyVaultIds, c \in CoverageAmounts, d \in TermDays : CreatePolicy(v, c, d)
    \/ \E p \in PolicyIds : ExpirePolicy(p)
    \/ \E p \in PolicyIds : CancelPolicy(p)
    \/ \E p \in PolicyIds, l \in LoanIds, h \in TxHashes, v \in PolicyVaultIds,
          a \in ClaimPayouts : DbCreateClaim(p, l, h, v, a)
    \/ \E c \in ClaimIds : DbValidateClaim(c)
    \/ \E c \in ValidateCalls :
          ValidateClaim(c.loan, c.policy_id, c.broker, c.vault_id, c.tx_hash, c.fails)

SpecValidate == Init /\ [][NextValidate]_vars

\* Escrow settlement of one claim of the store, with concurrent callers that
\* may escrow it more than once.
NextEscrow ==
    \/ Tick(MaxEscrowTicks)
    \/ /\ claims = <<>>
       /\ \E p \in PolicyIds, l \in LoanIds, h \in TxHashes, v \in PolicyVaultIds,
             a \in ClaimPayouts : DbCreateClaim(p, l, h, v, a)
    \/ \E c \in {i \in DOMAIN claims : claims[i].status = "pending"} : DbValidateClaim(c)
    \/ \E t \in ETasks, c \in DOMAIN claims, a \in PayoutAmounts :
          CreateEscrowSubmit(t, c, a)
    \/ \E t \in ETasks : CreateEscrowUpdate(t)
    \/ \E t \in ETasks : CreateEscrowStore(t)
    \/ \E t \in ETasks, c \in DOMAIN claims, s \in EscrowSeqs : FinishEscrowStatus(t, c, s)
    \/ \E t \in ETasks : FinishEscrowSubmit(t)
    \/ \E t \in ETasks : FinishEscrowUpdate(t)
    \/ \E t \in ETasks, c \in DOMAIN claims, s \in EscrowSeqs, r \in Reasons :
          CancelEscrowStatus(t, c, s, r)
    \/ \E t \in ETasks : CancelEscrowSubmit(t)
    \/ \E t \in ETasks : CancelEscrowUpdate(t)

SpecEscrow == Init /\ [][NextEscrow]_vars

\* One caller escrows and finishes claims while capital is withdrawn from the
\* pool.
NextSettle ==
    \/ Tick(MaxSettleTicks)
    \/ \E p \in PolicyIds, l \in LoanIds, h \in TxHashes, v \in PolicyVaultIds,
          a \in ClaimPayouts : DbCreateClaim(p, l, h, v, a)
    \/ \E c \in {i \in DOMAIN claims : claims[i].status = "pending"} : DbValidateClaim(c)
    \/ \E t \in SettleTasks, c \in DOMAIN claims, a \in SettleAmounts :
          CreateEscrowSubmit(t, c, a)
    \/ \E t \in SettleTasks : CreateEscrowUpdate(t)
    \/ \E t \in SettleTasks : CreateEscrowStore(t)
    \/ \E t \in SettleTasks, c \in DOMAIN claims, s \in EscrowSeqs :
          FinishEscrowStatus(t, c, s)
    \/ \E t \in SettleTasks : FinishEscrowSubmit(t)
    \/ \E t \in SettleTasks : FinishEscrowUpdate(t)
    \/ \E t \in SettleTasks, a \in Amounts : CallPool(t, "withdraw", a)
    \/ \E t \in SettleTasks : WithdrawRead(t)
    \/ \E t \in SettleTasks : WithdrawWrite(t)

SpecSettle == Init /\ [][NextSettle]_vars

\* The calculators, called with arguments of every sign.
NextCalc ==
    \/ \E p \in Principals, i \in Interests, d \in DebtTotals, c \in CoversAvailable,
          rm \in RatesBp, rl \in RatesBp : CallCalculateVaultLoss(p, i, d, c, rm, rl)
    \/ \E a \in AssetsTotals, l \in LossesUnrealized, s \in SharesTotals :
          CallShareValue(a, l, s)
    \/ \E a \in AssetsTotals, l \in LossesUnrealized, s \in SharesTotals,
          v \in VaultLosses : CallShareValueImpact(a, l, s, v)

SpecCalc == Init /\ [][NextCalc]_vars

\* The premium engine's risk tier, asked about every vault and broker.
NextTier ==
    \E v \in PremiumVaults, b \in PremiumBrokers : CallCalculateBaseRate(v, b)

SpecTier == Init /\ [][NextTier]_vars

\* The premium engine's risk multiplier, asked about every vault and broker,
\* with and without a historical default rate.
NextMultiplier ==
    \E v \in PremiumVaults, b \in PremiumBrokers, h \in HistoricalDefaultRates :
        CallCalculateRiskMultiplier(v, b, h)

SpecMultiplier == Init /\ [][NextMultiplier]_vars

\* The premium engine, asked for quotes.
NextPremium ==
    \E a \in QuotedCoverages, d \in QuotedTerms, v \in QuotedVaults, b \in QuotedBrokers,
       h \in QuotedDefaultRates : CallCalculatePremium(a, d, v, b, h)

SpecPremium == Init /\ [][NextPremium]_vars

\* The monitor on a stream of messages, with callbacks registered and
\* brokers added and removed at any time.
NextMonitor ==
    \/ \E c \in Callbacks : OnDefault(c)
    \/ \E b \in DOMAIN LedgerBrokers : AddLoanBroker(b)
    \/ \E b \in DOMAIN LedgerBrokers : RemoveLoanBroker(b)
    \/ Start
    \/ \E m \in StreamMessages : Receive(m)
    \/ \E o \in FetchOutcomes : GetLoan(o)
    \/ \E o \in FetchOutcomes : GetLoanBroker(o)
    \/ \E o \in FetchOutcomes : GetVault(o)
    \/ TriggerCallbacks
    \/ Stop

SpecMonitor == Init /\ [][NextMonitor]_vars

\* The monitor on a stream of defaults while the clock runs and the broker
\* and the vault of loan L1 change on the ledger.
DefaultMessages == { m \in StreamMessages : IsDefault(m) /\ m.LoanID = "L1" }
ChangingObjects == {"B1", "V1"}

NextCache ==
    \/ Start
    \/ \E m \in DefaultMessages : Receive(m)
    \/ \E o \in FetchOutcomes : GetLoan(o)
    \/ \E o \in FetchOutcomes : GetLoanBroker(o)
    \/ \E o \in FetchOutcomes : GetVault(o)
    \/ TriggerCallbacks
    \/ \E id \in ChangingObjects : LedgerChange(id)
    \/ Tick(MaxCacheTicks)

SpecCache == Init /\ [][NextCache]_vars

AllIdle == \A t \in Tasks : tasks[t].pc = "idle"

(***************************************************************************)
(* Properties of the pool ledger, checked under SpecPool.                  *)
(***************************************************************************)

\* C1: once the pool calls have run one after the other, never overlapping,
\* the stored coverage_ratio equals available_capital / total_exposure of the
\* same row whenever total_exposure > 0.
C1_StoredRatioFresh ==
    (AllIdle /\ ~overlapped /\ pool.total_exposure > 0)
        => RatioEq(pool.coverage_ratio,
                   Ratio(pool.available_capital, pool.total_exposure))

\* C2: when a withdraw and an add_exposure on the same pool, in flight in any
\* interleaving, have both succeeded, the pool holds at least
\* MINIMUM_COVERAGE_RATIO times its exposure.
C2_ConcurrentRatioKept ==
    (/\ pool.total_exposure > 0
     /\ \E t, u \in Tasks :
           /\ t # u
           /\ tasks[t].pc = "idle" /\ tasks[t].op = "withdraw" /\ tasks[t].res = "ok"
           /\ tasks[u].pc = "idle" /\ tasks[u].op = "add_exposure"
           /\ tasks[u].res = "ok")
        => ~RatioBelow(Ratio(pool.available_capital, pool.total_exposure),
                       MINIMUM_COVERAGE_RATIO)

\* What the completed call of task t added to available_capital, and to
\* total_claims_paid, by the call's own arguments and outcome
Delta(t) ==
    IF tasks[t].res # "ok" THEN 0
    ELSE IF tasks[t].op = "deposit" THEN tasks[t].amount
    ELSE IF tasks[t].op \in {"withdraw", "pay_claim"} THEN 0 - tasks[t].amount
    ELSE 0
Paid(t) ==
    IF tasks[t].res = "ok" /\ tasks[t].op = "pay_claim" THEN tasks[t].amount ELSE 0

\* C12: when two callers have each completed one deposit, withdraw or
\* pay_claim call on the pool, in any interleaving, available_capital is the
\* initial capital plus the deposits minus the withdrawals and the payouts
\* that succeeded, and total_claims_paid is the sum of those payouts.
C12_NoLostUpdate ==
    (/\ nops = 2
     /\ AllIdle
     /\ \A t \in Tasks : tasks[t].op \in {"deposit", "withdraw", "pay_claim"})
        => /\ \E c \in InitialCapitals :
                 pool.available_capital = c + Delta(1) + Delta(2)
           /\ pool.total_claims_paid = Paid(1) + Paid(2)

\* Task t takes the step of its call op that follows get_metrics.
ChecksRatio(t, op) ==
    /\ tasks[t].op = op /\ tasks[t].pc = "get_metrics"
    /\ tasks'[t] # tasks[t]
\* Task t's call ends in this step with outcome res.
EndsWith(t, res) ==
    /\ tasks[t].pc # "idle" /\ tasks'[t].pc = "idle"
    /\ tasks'[t].res = res

\* C21: an add_exposure of amount is rejected whenever available_capital <
\* 2 * (total_exposure + amount), and a withdraw of amount is rejected
\* whenever total_exposure > 0 and available_capital - amount <
\* 2 * total_exposure; a rejected call leaves the pool row as it was; and
\* while no two calls have overlapped, a successful add_exposure or withdraw
\* leaves a pool that holds at least twice its exposure.
C21_RatioGuardsExposureAndWithdraw ==
    [][\A t \in Tasks :
          /\ (ChecksRatio(t, "add_exposure")
                 /\ pool.available_capital < 2 * (pool.total_exposure + tasks[t].amount))
                => EndsWith(t, "ValueError")
          /\ (ChecksRatio(t, "withdraw") /\ pool.total_exposure > 0
                 /\ pool.available_capital - tasks[t].amount < 2 * pool.total_exposure)
                => EndsWith(t, "ValueError")
          /\ EndsWith(t, "ValueError") => pool' = pool
          /\ (EndsWith(t, "ok") /\ tasks[t].op \in {"add_exposure", "withdraw"}
                 /\ ~overlapped' /\ pool'.total_exposure > 0)
                => pool'.available_capital >= 2 * pool'.total_exposure]_vars

\* calls made one after the other: an add_exposure was accepted, and the
\* next one, which would bring the pool under twice its exposure, was
\* rejected and left the pool as it was
C21_Witness ==
    /\ ~overlapped
    /\ \E t \in Tasks :
          /\ tasks[t].op = "add_exposure" /\ tasks[t].res = "ValueError"
          /\ pool.total_exposure > 0
          /\ pool.available_capital >= 2 * pool.total_exposure
          /\ pool.available_capital < 2 * (pool.total_exposure + tasks[t].amount)

\* C22: a pay_claim call whose amount exceeds available_capital, or whose
\* ledger payment fails, ends leaving the pool row as it was; and every
\* write a pay_claim call makes to the pool row takes available_capital
\* down by the amount and total_claims_paid up by the amount in one step,
\* leaving total_capital, total_exposure and active_policies_count alone.
C22_PayoutUpdatesTogether ==
    [][\A t \in Tasks :
          /\ (ChecksRatio(t, "pay_claim") /\ tasks[t].amount > pool.available_capital)
                => (EndsWith(t, "ValueError") /\ pool' = pool)
          /\ EndsWith(t, "PaymentFailed") => pool' = pool
          /\ (tasks[t].op = "pay_claim" /\ tasks'[t] # tasks[t] /\ pool' # pool
                 /\ ~overlapped) =>
                /\ pool'.available_capital = pool.available_capital - tasks[t].amount
                /\ pool'.total_claims_paid = pool.total_claims_paid + tasks[t].amount
                /\ pool'.total_capital = pool.total_capital
                /\ pool'.total_exposure = pool.total_exposure
                /\ pool'.active_policies_count = pool.active_policies_count]_vars

(***************************************************************************)
(* Properties of claim validation, checked under SpecValidate.             *)
(***************************************************************************)
Approved == result.called /\ result.out.approved
Rejected == result.called /\ ~result.out.approved
\* The call got as far as the lookup of step 3 and the lookup did not raise.
LookedUp ==
    /\ result.called
    /\ result.out.rejection_reason \notin
          {"Loan not defaulted", "No vault loss occurred", "Database error fetching policy"}
\* The policy the call named, as the policy store holds it
NamedPolicy == policies[result.policy_id]
\* The rows of the claims table that validate_claim inserted for a key
ValidatedInto(loan_id, tx_hash) ==
    {i \in DOMAIN claims : /\ claims[i].via = "validate_claim"
                           /\ claims[i].loan_id = loan_id
                           /\ claims[i].loan_manage_tx_hash = tx_hash}

C4_PolicyLookedUpInPolicyStore ==
    LookedUp => ((result.out.rejection_reason = "Policy not found")
                    <=> (result.policy_status = "missing"))

Forward ==
    { <<"pending", "validated">>, <<"validated", "escrowed">>, <<"escrowed", "settled">>,
      <<"pending", "rejected">>, <<"validated", "rejected">>, <<"escrowed", "rejected">> }

\* C8: a step of validate_claim, create_claim_escrow, finish_escrow or
\* cancel_escrow leaves every claim's status as it was or moves it one
\* place forward: pending to validated to escrowed to settled, or from a
\* status before settled to rejected.
C8_StatusOnlyForward ==
    [][(etasks' # etasks \/ nvalidate' # nvalidate) =>
          \A i \in DOMAIN claims :
             \/ claims'[i].status = claims[i].status
             \/ <<claims[i].status, claims'[i].status>> \in Forward]_vars

\* The finish or cancel call of task t ended in an error in this step.
EndsInError(t) ==
    /\ etasks'[t] # etasks[t]
    /\ etasks'[t].op \in {"finish", "cancel"}
    /\ etasks'[t].res \in {"not_finishable", "not_cancellable", "failed"}
\* A call of kind op, naming escrow s, went on to update the store in this step.
TakesEffect(s, op) ==
    /\ Len(escrows'[s].effects) = Len(escrows[s].effects) + 1
    /\ escrows'[s].effects[Len(escrows'[s].effects)].op = op
EffectClaim(s) == escrows'[s].effects[Len(escrows'[s].effects)].claim_id

C10_SettledOnlyIfPoolCovers ==
    [][\A s \in DOMAIN escrows :
          ((escrows[s].state = "open" /\ escrows'[s].state = "finished")
              \/ TakesEffect(s, "finish"))
             => pool.available_capital >= escrows[s].amount]_vars

\* The escrows the ledger ever created for a claim, and their amounts summed
EscrowsOf(claim_id) == {s \in DOMAIN escrows : escrows[s].claim_id = claim_id}
RECURSIVE SumAmounts(_)
SumAmounts(seqs) ==
    IF seqs = {} THEN 0
    ELSE LET s == CHOOSE x \in seqs : TRUE
         IN escrows[s].amount + SumAmounts(seqs \ {s})

\* C11: the ledger creates an escrow for a claim only while the claim is
\* 'validated'; it holds at most one escrow ever created for one claim; and
\* the amounts ever escrowed for one claim sum to at most its claim_payout.
C11_EscrowedOncePerClaim ==
    [][/\ Len(escrows') = Len(escrows) + 1 =>
             claims[escrows'[Len(escrows')].claim_id].status = "validated"
       /\ \A c \in DOMAIN claims' :
             /\ Cardinality({s \in DOMAIN escrows' : escrows'[s].claim_id = c}) <= 1
             /\ SumAmounts(EscrowsOf(c))' <= claims'[c].claim_payout]_vars

\* C13: for every escrow still on the ledger there is a time in its dispute
\* window, from its creation up to but not including finish_after, at which
\* cancel_escrow's check lets a cancellation through.
C13_CancellableInDisputeWindow ==
    \A s \in DOMAIN escrows :
        OnLedger(escrows, s) =>
            \E tau \in (escrows[s].finish_after - DISPUTE_WINDOW_HOURS)
                           .. (escrows[s].finish_after - 1) :
                get_escrow_status(escrows, s, tau).can_cancel

\* Task t started a call of kind op in this step.
Starts(t, op) ==
    /\ ncalls' = ncalls + 1
    /\ etasks'[t] # etasks[t]
    /\ etasks'[t].op = op

Contains(str, sub) ==
    \E i \in 1 .. (Len(str) - Len(sub) + 1) : SubSeq(str, i, i + Len(sub) - 1) = sub

\* C15: a cancel_escrow call made before the cancel_after of the escrow it
\* names is refused at once: nothing is submitted and the claims and the
\* ledger stay as they were. A cancel_escrow call that succeeds leaves the
\* claim 'rejected' with a rejection reason that contains the reason the
\* caller passed.
C15_CancelOnlyAfterCancelAfter ==
    [][\A t \in ETasks :
          /\ \A s \in DOMAIN escrows :
                (Starts(t, "cancel") /\ etasks'[t].seq = s
                    /\ now < escrows[s].cancel_after) =>
                   /\ etasks'[t].pc = "idle"
                   /\ etasks'[t].res = "not_cancellable"
                   /\ escrows' = escrows
                   /\ claims' = claims
          /\ (etasks[t].op = "cancel" /\ etasks'[t] # etasks[t]
                 /\ etasks'[t].res = "ok") =>
                /\ claims'[etasks[t].claim_id].status = "rejected"
                /\ Contains(claims'[etasks[t].claim_id].rejection_reason,
                            etasks[t].reason)]_vars

\* one cancel call was refused before cancel_after, and a later one, past
\* cancel_after, returned the funds and rejected the claim with its reason
C15_Witness ==
    \E t, u \in ETasks, s \in DOMAIN escrows :
        /\ etasks[t].op = "cancel" /\ etasks[t].seq = s /\ etasks[t].res = "ok"
        /\ etasks[u].op = "cancel" /\ etasks[u].seq = s
        /\ etasks[u].res = "not_cancellable"
        /\ etasks[t].reason = "fraud"
        /\ escrows[s].state = "cancelled"
        /\ now = escrows[s].cancel_after
        /\ claims[etasks[t].claim_id].status = "rejected"
        /\ Contains(claims[etasks[t].claim_id].rejection_reason, "fraud")

\* C16: the status reported for an escrow is 'pending' before finish_after,
\* 'finishable' from finish_after up to cancel_after, 'cancellable' from
\* cancel_after on while the escrow has not been finished, 'finished' once
\* an EscrowFinish has been applied to it and 'cancelled' once an
\* EscrowCancel has.
C16_StatusByTimeAndOutcome ==
    \A s \in DOMAIN escrows :
        get_escrow_status(escrows, s, now).status =
            IF escrows[s].state = "finished" THEN "finished"
            ELSE IF escrows[s].state = "cancelled" THEN "cancelled"
            ELSE IF now < escrows[s].finish_after THEN "pending"
            ELSE IF now < escrows[s].cancel_after THEN "finishable"
            ELSE "cancellable"

\* C17: the escrow an accepted create_claim_escrow leaves on the ledger has
\* finish_after 48 hours after the time of the call and cancel_after 72
\* hours after finish_after, so finish_after < cancel_after; the call then
\* sets the claim 'escrowed' and records the escrow's sequence on the claim;
\* a create_claim_escrow the ledger rejects leaves the claims as they were.
C17_EscrowTimesAndStatus ==
    [][/\ Len(escrows') = Len(escrows) + 1 =>
             LET e == escrows'[Len(escrows')]
             IN /\ e.finish_after = now + 48
                /\ e.cancel_after = e.finish_after + 72
                /\ e.finish_after < e.cancel_after
       /\ \A t \in ETasks :
             /\ (etasks[t].op = "create" /\ etasks[t].pc = "update"
                    /\ etasks'[t] # etasks[t]) =>
                   claims'[etasks[t].claim_id].status = "escrowed"
             /\ (etasks[t].op = "create" /\ etasks[t].pc = "store"
                    /\ etasks'[t] # etasks[t]) =>
                   /\ etasks'[t].res = "ok"
                   /\ claims'[etasks[t].claim_id].escrow_sequence = etasks[t].seq
                   /\ escrows[etasks[t].seq].claim_id = etasks[t].claim_id
             /\ (Starts(t, "create") /\ etasks'[t].res = "failed") =>
                   /\ claims' = claims
                   /\ escrows' = escrows]_vars

\* one create_claim_escrow was rejected by the ledger and another, accepted,
\* has returned: the claim is 'escrowed' and carries the sequence of the
\* escrow created at this hour
C17_Witness ==
    \E t, u \in ETasks :
        /\ etasks[t].op = "create" /\ etasks[t].res = "ok"
        /\ etasks[u].op = "create" /\ etasks[u].res = "failed"
        /\ claims[etasks[t].claim_id].status = "escrowed"
        /\ claims[etasks[t].claim_id].escrow_sequence = etasks[t].seq
        /\ escrows[etasks[t].seq].finish_after = now + DISPUTE_WINDOW_HOURS
        /\ escrows[etasks[t].seq].cancel_after = now + 120

(***************************************************************************)
(* Properties of the order of the checks of validate_claim, checked under  *)
(* SpecValidate.                                                           *)
(***************************************************************************)
DatabaseErrors == {"Database error fetching policy", "Database error creating claim"}
\* The reasons of the first check that fails for the call result records, in
\* the order loan defaulted, vault loss, policy exists, policy active,
\* coverage window, vault match; empty when none of them fails.
FirstFailingCheck ==
    IF ~result.defaulted THEN {"Loan not defaulted"}
    ELSE IF ~result.has_loss THEN {"No vault loss occurred"}
    ELSE IF result.policy_status = "missing" THEN {"Policy not found"}
    ELSE IF result.policy_status # "active" THEN {"Policy not active"}
    ELSE IF ~result.in_window THEN {"Coverage not started", "Policy expired"}
    ELSE IF ~result.vault_match THEN {"VaultID mismatch"}
    ELSE {}

\* C18: a validate_claim call in which no database call raised is rejected
\* with the reason of the first failing check in the order loan defaulted,
\* vault loss > 0, policy exists, policy active, coverage window, vault
\* match, and is approved when none fails; a call rejected at one of the
\* first two checks has made no database call, and a call rejected at a
\* later check has made no database call after the policy lookup.
C18_FirstFailingCheckDecides ==
    (result.called /\ result.out.rejection_reason \notin DatabaseErrors) =>
        /\ IF FirstFailingCheck = {}
           THEN result.out.approved
           ELSE /\ ~result.out.approved
                /\ result.out.rejection_reason \in FirstFailingCheck
        /\ result.out.rejection_reason \in {"Loan not defaulted", "No vault loss occurred"}
              => result.db_calls = <<>>
        /\ ~result.out.approved => result.db_calls \in {<<>>, <<"get_claims">>}

\* C19: a validate_claim call for a loan that is not defaulted is rejected
\* as not defaulted, whatever its other arguments and whatever database call
\* would raise; it makes no database call and leaves the claims table as it
\* was.
C19_NotDefaultedRejectedAtOnce ==
    [][(nvalidate' # nvalidate /\ ~result'.defaulted) =>
          /\ ~result'.out.approved
          /\ result'.out.rejection_reason = "Loan not defaulted"
          /\ result'.db_calls = <<>>
          /\ claims' = claims]_vars

\* a loan that is not defaulted, with a vault loss, against an active policy
\* of the vault, in its window
C19_Witness ==
    /\ result.called
    /\ ~result.defaulted
    /\ result.has_loss
    /\ result.policy_status = "active"
    /\ result.in_window
    /\ result.vault_match
    /\ result.out.rejection_reason = "Loan not defaulted"

(***************************************************************************)
(* Properties of the calculators, checked under SpecCalc.                  *)
(***************************************************************************)
VaultLossCall == calc.fn = "calculate_vault_loss"
NonNegativeArgs ==
    /\ calc.args.principal_outstanding >= 0 /\ calc.args.interest_outstanding >= 0
    /\ calc.args.debt_total >= 0 /\ calc.args.cover_available >= 0
    /\ calc.args.cover_rate_minimum \in 0 .. 10000
    /\ calc.args.cover_rate_liquidation \in 0 .. 10000

\* C23: for non-negative amounts and rates in [0, 1], calculate_vault_loss
\* returns default_amount = principal + interest, minimum_cover =
\* floor(debt_total * cover_rate_minimum), default_covered =
\* min(floor(minimum_cover * cover_rate_liquidation), default_amount,
\* cover_available) and vault_loss = default_amount - default_covered, with
\* 0 <= default_covered <= default_amount and vault_loss >= 0.
C23_WaterfallExact ==
    (VaultLossCall /\ NonNegativeArgs) =>
        LET a == calc.args
            default_amount == a.principal_outstanding + a.interest_outstanding
            minimum_cover == (a.debt_total * a.cover_rate_minimum) \div 10000
            liquidated == (minimum_cover * a.cover_rate_liquidation) \div 10000
            default_covered ==
                IF liquidated <= default_amount /\ liquidated <= a.cover_available
                THEN liquidated
                ELSE IF default_amount <= a.cover_available THEN default_amount
                ELSE a.cover_available
        IN /\ calc.raised = "none"
           /\ calc.out.default_amount = default_amount
           /\ calc.out.minimum_cover = minimum_cover
           /\ calc.out.default_covered = default_covered
           /\ calc.out.vault_loss = default_amount - default_covered
           /\ 0 <= calc.out.default_covered
           /\ calc.out.default_covered <= calc.out.default_amount
           /\ calc.out.vault_loss >= 0

\* C24: calculate_vault_loss called with a negative principal, interest,
\* debt_total, cover_available or rate fails with InvalidInput and returns
\* no result.
C24_NegativeInputRejected ==
    (VaultLossCall /\ \E k \in DOMAIN calc.args : calc.args[k] < 0) =>
        calc.raised = "InvalidInput"

\* C25: for a vault without shares Vault.share_value is 0, and
\* calculate_share_value_impact raises nothing and returns 0 for
\* share_value_before, share_value_after, loss_per_share and
\* loss_percentage.
C25_NoSharesGivesZero ==
    /\ (calc.fn = "share_value" /\ calc.args.shares_total = 0) =>
          (calc.raised = "none" /\ calc.out.num = 0)
    /\ (calc.fn = "calculate_share_value_impact" /\ calc.args.shares_total = 0) =>
          /\ calc.raised = "none"
          /\ calc.out.share_value_before.num = 0
          /\ calc.out.share_value_after.num = 0
          /\ calc.out.loss_per_share.num = 0
          /\ calc.out.loss_percentage.num = 0

(***************************************************************************)
(* Properties of the premium engine's risk tier, checked under SpecTier,   *)
(* and of its risk multiplier, checked under SpecMultiplier.                *)
(***************************************************************************)
\* A row of the tier table: coverage_ratio >= cr/100, impairment < ir/100
\* and utilization < u/100
RowHolds(m, cr, ir, u) ==
    /\ m.coverage_ratio.num * 100 >= cr * m.coverage_ratio.den
    /\ m.impairment_ratio.num * 100 < ir * m.impairment_ratio.den
    /\ m.utilization.num * 100 < u * m.utilization.den

FirstMatchingRow(m) ==
    IF RowHolds(m, 200, 1, 50) THEN "safest"
    ELSE IF RowHolds(m, 150, 5, 70) THEN "safe"
    ELSE IF RowHolds(m, 100, 10, 85) THEN "moderate"
    ELSE IF RowHolds(m, 50, 20, 95) THEN "elevated"
    ELSE "high"

TierRatePercent == [ safest |-> 1, safe |-> 2, moderate |-> 3, elevated |-> 4, high |-> 5 ]

\* C26: the risk tier returned is the first row of the table whose three
\* conditions all hold (safest, safe, moderate, elevated), else high, and
\* the base rate returned is the rate of that tier (1% to 5%).
C26_TierIsFirstMatchingRow ==
    calc.fn = "_calculate_base_rate" =>
        /\ calc.out.risk_tier = FirstMatchingRow(calc.metrics)
        /\ calc.out.base_rate = TierRatePercent[calc.out.risk_tier]

\* coverage ratio 2.5, impairment 0 and utilization 0.3 were rated safest, 1%
C26_Witness ==
    /\ calc.fn = "_calculate_base_rate"
    /\ calc.metrics.coverage_ratio = Ratio(250, 100)
    /\ calc.metrics.impairment_ratio = Ratio(0, 100)
    /\ calc.metrics.utilization = Ratio(30, 100)
    /\ calc.out.risk_tier = "safest"
    /\ calc.out.base_rate = 1

TierRank == [ safest |-> 1, safe |-> 2, moderate |-> 3, elevated |-> 4, high |-> 5 ]

\* metrics m are at least as good as metrics n: coverage no lower,
\* impairment and utilization no higher
BetterOrEqual(m, n) ==
    /\ m.coverage_ratio.num * n.coverage_ratio.den >= n.coverage_ratio.num * m.coverage_ratio.den
    /\ m.impairment_ratio.num * n.impairment_ratio.den <= n.impairment_ratio.num * m.impairment_ratio.den
    /\ m.utilization.num * n.utilization.den <= n.utilization.num * m.utilization.den

RatedThenRated ==
    /\ calc.fn = "_calculate_base_rate"
    /\ calc'.fn = "_calculate_base_rate"

\* C27: of two ratings, the one whose metrics are better or equal
\* (coverage_ratio no lower, impairment and utilization no higher) gets
\* neither a higher-risk tier nor a higher base rate.
C27_TierMonotone ==
    [][(RatedThenRated /\ BetterOrEqual(calc'.metrics, calc.metrics)) =>
          /\ TierRank[calc'.out.risk_tier] <= TierRank[calc.out.risk_tier]
          /\ calc'.out.base_rate <= calc.out.base_rate]_vars

\* a rating that came out in a lower-risk tier than the rating of a vault
\* and broker with worse metrics
C27_Witness ==
    /\ calc.fn = "_calculate_base_rate"
    /\ \E v \in PremiumVaults, b \in PremiumBrokers :
          /\ BetterOrEqual(calc.metrics, RiskMetrics(v, b))
          /\ calc.metrics # RiskMetrics(v, b)
          /\ TierRank[calc.out.risk_tier] < TierRank[_calculate_base_rate(v, b).risk_tier]

\* The factor each rule of the multiplier gives for metrics m and a
\* historical default rate h, in hundredths
RuleUtilization(m) ==
    IF m.utilization.num * 10 > 9 * m.utilization.den THEN 150
    ELSE IF m.utilization.num * 10 > 8 * m.utilization.den THEN 125
    ELSE IF m.utilization.num * 10 < 3 * m.utilization.den THEN 75
    ELSE 100
RuleCoverage(m) ==
    IF m.coverage_ratio.num * 10 < 10 * m.coverage_ratio.den THEN 180
    ELSE IF m.coverage_ratio.num * 10 < 15 * m.coverage_ratio.den THEN 130
    ELSE IF m.coverage_ratio.num * 10 > 30 * m.coverage_ratio.den THEN 80
    ELSE 100
RuleImpairment(m) ==
    IF m.impairment_ratio.num * 10 > 2 * m.impairment_ratio.den THEN 160
    ELSE IF m.impairment_ratio.num * 10 > 1 * m.impairment_ratio.den THEN 130
    ELSE IF m.impairment_ratio.num = 0 THEN 90
    ELSE 100
RuleHistory(h) ==
    IF ~h.given THEN 100
    ELSE IF h.rate.num * 100 > 10 * h.rate.den THEN 150
    ELSE IF h.rate.num * 100 > 5 * h.rate.den THEN 120
    ELSE IF h.rate.num * 100 < 1 * h.rate.den THEN 85
    ELSE 100

\* the product of the four rules, over 100^4
RuleProduct(m, h) == RuleUtilization(m) * RuleCoverage(m) * RuleImpairment(m) * RuleHistory(h)
Unit4 == 100 * 100 * 100 * 100

MultiplierCall == calc.fn = "_calculate_risk_multiplier"

QuoteCall == calc.fn = "calculate_premium"

\* the multiplier the rules give: their product, held within [0.5, 2.0],
\* in lowest terms
RuleMultiplier(m, h) ==
    LET p == RuleProduct(m, h)
    IN IF 2 * p < Unit4 THEN Ratio(1, 2)
       ELSE IF p > 2 * Unit4 THEN Ratio(2, 1)
       ELSE Lowest(Ratio(p, Unit4))

\* C29: premium = floor(coverage_amount * base_rate * (term_days / 365) *
\* risk_multiplier), where the multiplier is the product of one factor per
\* rule (utilization, coverage ratio, impairment, and the historical default
\* rate only when given) held within its bounds; the premium is not
\* negative.
C29_PremiumIsFloorOfProduct ==
    QuoteCall =>
        LET a == calc.args
            r == RuleMultiplier(calc.metrics, a.historical_default_rate)
            rate == TierRatePercent[FirstMatchingRow(calc.metrics)]
        IN /\ calc.out.risk_multiplier = r
           /\ calc.out.premium = FloorOfProduct(a.coverage_amount * rate * a.term_days, r) \div 36500
           /\ calc.out.premium >= 0

QuotedThenQuoted == QuoteCall /\ calc'.fn = "calculate_premium"

\* of two quotes for the same vault, broker and default rate, the one for no
\* less coverage and no shorter a term is no cheaper
PremiumMonotone ==
    [][(/\ QuotedThenQuoted
        /\ calc'.args.vault = calc.args.vault
        /\ calc'.args.loan_broker = calc.args.loan_broker
        /\ calc'.args.historical_default_rate = calc.args.historical_default_rate
        /\ calc'.args.coverage_amount >= calc.args.coverage_amount
        /\ calc'.args.term_days >= calc.args.term_days)
          => calc'.out.premium >= calc.out.premium]_vars

(***************************************************************************)
(* Properties of the default monitor, checked under SpecMonitor.           *)
(***************************************************************************)
\* a fetch of the loan, broker or vault of the message in hand fails
FetchFails == mon'.failed # mon.failed

\* C30: when fetching the Loan, LoanBroker or Vault of a detected default
\* fails or times out, the event is delivered to no callback, now or later,
\* no claim is created or approved for it, and the monitor is back at its
\* loop, as running as before, to take the next message.
C30_HydrationFailsClosed ==
    [][/\ FetchFails =>
             /\ mon'.delivered = mon.delivered
             /\ claims' = claims
             /\ result' = result
             /\ mon'.pc = "idle"
             /\ mon'.running = mon.running
       /\ \A d \in mon'.delivered : d[2] \notin mon'.failed]_vars

\* a fetch failed for one message, and a later message was delivered to a
\* callback
C30_Witness ==
    \E f \in mon.failed : \E d \in mon.delivered : d[2] > f

(***************************************************************************)
(* Properties of the monitor's caches, checked under SpecCache.            *)
(***************************************************************************)
\* the handler has its three snapshots and builds the event from them
Evaluates == mon.pc = "get_vault" /\ mon'.pc = "trigger"

\* the longest a cached snapshot could be served if entries expired at all
\* within the run
StaleAfter == (MaxCacheTicks - 1) * TickHours

FreshEnough(id, version) ==
    \/ version = objects[id].version
    \/ now - objects[id].changed_at <= StaleAfter

\* C31: a default is evaluated with the LoanBroker and the Vault as the
\* ledger holds them, or with snapshots no older than a bounded TTL: once
\* an object changed more than the TTL ago, the changed state is used.
C31_SnapshotsFreshWithinTtl ==
    [][Evaluates =>
          /\ FreshEnough(mon'.locals.loan_broker_id, mon'.locals.broker_version)
          /\ FreshEnough(mon'.locals.vault_id, mon'.locals.vault_version)]_vars

(***************************************************************************)
(* Properties of delivery and of the broker filter, under SpecMonitor.     *)
(***************************************************************************)
\* the handler leaves _get_vault with the three snapshots fetched
Hydrated == mon.pc = "get_vault" /\ mon'.pc # "get_vault" /\ mon'.failed = mon.failed

\* the check of line 179 lets the broker through
PassesFilter(m, loan_broker_id) ==
    m.monitored_loan_brokers = {} \/ loan_broker_id \in m.monitored_loan_brokers

\* C34: every default message whose loan, broker and vault are fetched and
\* whose broker passes the monitoring filter goes on to _trigger_callbacks,
\* for every vault state, a vault with shares_total = 0 included.
C34_EveryDefaultTriggersCallbacks ==
    [][Hydrated /\ PassesFilter(mon, mon.locals.loan_broker_id) => mon'.pc = "trigger"]_vars

\* C35: once a broker has been taken off the monitored list by
\* remove_loan_broker, its defaults reach no callback until add_loan_broker
\* puts it back, also when it was the last broker of the list.
C35_RemovedBrokerNeverTriggers ==
    [][Hydrated /\ mon.locals.loan_broker_id \in mon.removed => mon'.pc # "trigger"]_vars

(***************************************************************************)
(* Properties binding a claim to its escrow, under SpecSettle.             *)
(***************************************************************************)
\* C36: a claim is settled only if the escrow that was created for that
\* same claim has been finished; finish_escrow called with another claim's
\* escrow sequence never marks the claim settled.
C36_SettledOnlyByOwnEscrow ==
    \A c \in DOMAIN claims :
        claims[c].status = "settled" =>
            \E s \in DOMAIN escrows : escrows[s].claim_id = c /\ escrows[s].state = "finished"

(***************************************************************************)
(* Properties of the pool's accounts under sequential calls, in SpecPool.  *)
(***************************************************************************)
\* C37: while calls run one after another, after every call the pool has
\* available_capital >= 0, total_capital >= available_capital,
\* total_exposure >= 0, active_policies_count >= 0 and
\* total_capital - available_capital = total_claims_paid; withdraw never
\* takes more than available_capital, also when total_exposure = 0.
C37_SequentialAccountsSound ==
    (AllIdle /\ ~overlapped) =>
        /\ pool.available_capital >= 0
        /\ pool.total_capital >= pool.available_capital
        /\ pool.total_exposure >= 0
        /\ pool.active_policies_count >= 0
        /\ pool.total_capital - pool.available_capital = pool.total_claims_paid

(***************************************************************************)
(* Properties tying the pool's exposure to the policy store, under         *)
(* SpecValidate.                                                           *)
(***************************************************************************)
RECURSIVE ActiveCoverage(_, _)
\* the coverage of the active policies among the first n of the table
ActiveCoverage(table, n) ==
    IF n = 0 THEN 0
    ELSE ActiveCoverage(table, n - 1)
         + (IF table[n].status = "active" THEN table[n].coverage_amount ELSE 0)

ActivePolicies == { i \in DOMAIN policies : policies[i].status = "active" }

\* C38: the pool's total_exposure is the sum of coverage_amount over the
\* policies with status 'active', and active_policies_count is their number.
C38_ExposureMatchesPolicies ==
    /\ pool.total_exposure = ActiveCoverage(policies, Len(policies))
    /\ pool.active_policies_count = Cardinality(ActivePolicies)

(***************************************************************************)
(* Properties of absent records, checked under SpecAbsent.                 *)
(***************************************************************************)
\* a pool call ends in this step
Returns(t) == tasks[t].pc # "idle" /\ tasks'[t].pc = "idle"

\* the store holds no row of the pool
NoRowStored == "none" \in DOMAIN pool

Requested == calc.fn = "request"

\* the keys the environment of the request makes valid, and the admin ones
ValidKeySet(env) ==
    { IF env.API_KEY_ADMIN = Unset THEN "ward_admin_2026" ELSE env.API_KEY_ADMIN[1],
      IF env.API_KEY_MONITOR = Unset THEN "ward_monitor_2026" ELSE env.API_KEY_MONITOR[1],
      IF env.API_KEY_UNDERWRITER = Unset THEN "ward_underwriter_2026"
      ELSE env.API_KEY_UNDERWRITER[1] }
\* the role the key set gives a valid key: of two entries with one key the
\* dict keeps the later
KeyRole ==
    LET env == calc.args.env
        key == calc.args.x_api_key[1]
    IN IF env.API_KEY_UNDERWRITER = <<key>>
          \/ (env.API_KEY_UNDERWRITER = Unset /\ key = "ward_underwriter_2026")
       THEN "underwriter"
       ELSE IF env.API_KEY_MONITOR = <<key>>
               \/ (env.API_KEY_MONITOR = Unset /\ key = "ward_monitor_2026")
       THEN "monitor"
       ELSE "admin"
KeySent == calc.args.x_api_key # Unset /\ calc.args.x_api_key # <<"">>
KeyValid == KeySent /\ calc.args.x_api_key[1] \in ValidKeySet(calc.args.env)
AdminPath == calc.args.path \in {"/admin/api-keys", "/admin/rate-limits"}

ActiveLoops(c) == { h \in Loops : c.pc[h] \in {"hb_sleep", "hb_test", "test", "sleep"} }

\* a heartbeat task's connect() sets is_connected in this step, the
\* application having called disconnect() and no connect() since
LoopReconnectsAfterDisconnect ==
    /\ conn.stopped /\ conn.pc[App] = "idle" /\ conn'.pc[App] = "idle"
    /\ ~conn.is_connected /\ conn'.is_connected

\* C39: at most one heartbeat monitor loop is active per pool at any time,
\* across connect, heartbeat failures with reconnect, and disconnect; and
\* after disconnect() no heartbeat loop sets is_connected back to true.
C39_OneHeartbeatLoop ==
    [][Cardinality(ActiveLoops(conn')) <= 1 /\ ~LoopReconnectsAfterDisconnect]_vars

\* a connect() call of the application ends in this step
AppReturns == conn.pc[App] # "idle" /\ conn'.pc[App] = "idle"

\* an attempt of the application's connect() call fails in this step
AppAttemptFails ==
    /\ conn.pc[App] = "test"
    /\ conn'.pc[App] = "sleep" \/ conn'.res = "ConnectionError"

\* C40: a connect() call ends either connected, with reconnect_attempts 0,
\* or with ConnectionError once its first attempt and
\* max_reconnect_attempts retries have all failed, is_connected false; it
\* never makes more than max_reconnect_attempts + 1 attempts, and each
\* failed attempt adds one to failed_requests.
C40_ConnectSucceedsOrExhaustsRetries ==
    [][/\ AppReturns =>
            \/ /\ conn'.res = "ok"
               /\ conn'.is_connected /\ conn'.reconnect_attempts = 0
            \/ /\ conn'.res = "ConnectionError"
               /\ conn'.attempts[App] = max_reconnect_attempts + 1
               /\ ~conn'.is_connected
       /\ conn'.attempts[App] <= max_reconnect_attempts + 1
       /\ AppAttemptFails => conn'.failed_requests = conn.failed_requests + 1]_vars
====
